---- MODULE Spec2Model ----
(***************************************************************************)
(* Session/transport layer of the calculator MCP web client:               *)
(* HttpMCPClient (app/infrastructure/mcp_client.py) driven either directly *)
(* by arbitrary call sequences (Spec) or by the application's ChatService  *)
(* life cycle (AppSpec).                                                   *)
(*                                                                         *)
(* The httpx.AsyncClient objects and the remote server are the             *)
(* environment: every AsyncClient the code creates is an entry of conns,   *)
(* every request handed to an open AsyncClient is an entry of sent, and    *)
(* the server's answers are drawn from small response sets.                *)
(***************************************************************************)
EXTENDS Integers, Sequences, FiniteSets

VARIABLES
    client,         \* self._client: NoClient or the index in conns of the AsyncClient
    session_id,     \* self._session_id: None or a session identifier
    tools_cache,    \* self._tools_cache: None or the cached tool list
    request_id,     \* self._request_id
    conns,          \* environment: state of every AsyncClient created so far
    sent,           \* environment: every message posted on an open AsyncClient, in order
    last,           \* observation: the most recent call and how it ended
    everConnected,  \* observation: connect has been called on this instance
    lifecycle,      \* observation: most recent of connect / disconnect on this instance
    quiet,          \* observation: the last disconnect came second in a row or before any connect
    goodSid,        \* observation: session id returned by the most recent successful initialize
    sessionList,    \* observation: list returned by the first list_tools that succeeded
                    \* since the most recent connect / disconnect, None before it
    reconnected,    \* observation: the last connect succeeded and followed a disconnect
    inflight,       \* chat handlers: position of every WebSocket handler (ConcSpec)
    wire,           \* response handling on its own: a response and what was made of it (WireSpec)
    registry,       \* self._tools of the ToolRegistry that get_tool_registry hands out
    reg,            \* observation: the most recent ToolRegistry call and how it ended (RegSpec)
    chat,           \* one run of ChatService._handle_tool_calls and what it yielded (ChatSpec)
    calc,           \* the calculator server: a tool call and what it returned (CalcSpec)
    conv,           \* the ConversationManager: max_history, self._messages and the most
                    \* recent call on it (ConvSpec, ChatSpec)
    ws,             \* one chat WebSocket: what was received and sent on it (WsSpec)
    app             \* position of the application life cycle (AppSpec), "direct" under Spec

vars == <<client, session_id, tools_cache, request_id, conns, sent, last,
          everConnected, lifecycle, quiet, goodSid, sessionList, reconnected,
          inflight, wire, app, registry, reg, chat, calc, conv, ws>>

\* the state of the HttpMCPClient, its environment and the observations of it
clientVars == <<client, session_id, tools_cache, request_id, conns, sent, last,
                everConnected, lifecycle, quiet, goodSid, sessionList, reconnected>>

---------------------------------------------------------------------------
(* Bounds of the model *)

MaxConns == 3        \* AsyncClient objects created
MaxSent == 5         \* messages logged before sending operations stop
MaxRequestId == 5    \* request ids issued

(* Values *)

None == "none"
NoClient == 0
SessionIds == {"s1", "s2"}
ToolNames == {"add", "divide"}
ToolLists == {<< >>, <<"add", "divide">>}

\* What the server (or the transport) answers to a POST.
\* status: "ok" (2xx), "http_error" (non-2xx), "transport_error" (timeout, refused)
\* sid:    the mcp-session-id response header, None when omitted
\* kind:   "result" / "error" (JSON-RPC envelope), "garbled" (body is not JSON)
Failures == {[status |-> s, sid |-> None, kind |-> "garbled", tools |-> << >>] :
                s \in {"http_error", "transport_error"}}

InitResponses ==
    Failures \cup
    {[status |-> "ok", sid |-> h, kind |-> k, tools |-> << >>] :
        h \in SessionIds \cup {None}, k \in {"result", "error", "garbled"}}

ListResponses ==
    Failures \cup
    {[status |-> "ok", sid |-> None, kind |-> "result", tools |-> t] : t \in ToolLists} \cup
    {[status |-> "ok", sid |-> None, kind |-> k, tools |-> << >>] : k \in {"error", "garbled"}}

CallResponses ==
    Failures \cup
    {[status |-> "ok", sid |-> None, kind |-> k, tools |-> << >>] :
        k \in {"result", "error", "garbled"}}

\* The notification's response is never inspected: only a raising POST matters.
NotifyOutcomes == {"ok", "transport_error"}

---------------------------------------------------------------------------
(* HttpMCPClient *)

\* __init__: self._request_id = 0
InitialRequestId == 0

\* _next_request_id: self._request_id += 1; return self._request_id
NextRequestId_Wrap(rid) == (rid % 2) + 1

NextRequestId(rid) == rid + 1

\* The guard of list_tools and call_tool: not self._client or not self._session_id
NotConnected(cl, sid) == cl = NoClient \/ sid = None

\* response.raise_for_status() and the POST itself: the exception they raise, if any
PostRaises(r) == r.status \in {"http_error", "transport_error"}

\* _parse_sse_response: json.loads raises on a body that is not JSON
ParseRaises(r) == r.kind = "garbled"

\* connect, after the initialize POST: why initialization fails, "none" when it succeeds
InitializeFailure_NoErrorCheck(r) ==
    IF PostRaises(r) THEN r.status
    ELSE IF r.sid = None THEN "no_session_id"
    ELSE IF ParseRaises(r) THEN "malformed"
    ELSE "none"

InitializeFailure(r) ==
    IF PostRaises(r) THEN r.status
    ELSE IF r.sid = None THEN "no_session_id"
    ELSE IF ParseRaises(r) THEN "malformed"
    ELSE IF r.kind = "error" THEN "init_error"
    ELSE "none"

\* connect: self._session_id after the initialize POST returned r
SessionAfterInitialize(old, r) == IF PostRaises(r) THEN old ELSE r.sid

\* connect: the exception raised when the initialized notification's POST raises
NotifyFailure(n) == IF n = "transport_error" THEN "transport_error" ELSE "none"

\* connect: the except clauses re-raise every failure as MCPConnectionError
ConnectRaises_Swallow(why) == FALSE

ConnectRaises(why) == why # "none"

\* list_tools: if self._tools_cache is not None
CacheHit_Truthy(cache) == cache # None /\ cache # << >>

CacheHit(cache) == cache # None

\* list_tools: both except clauses raise MCPConnectionError
ListToolsException(why) == IF why = "none" THEN "none" ELSE "MCPConnectionError"

\* call_tool: both except clauses raise ToolExecutionError
CallToolException_HttpErrorEscapes(why) ==
    IF why = "none" THEN "none"
    ELSE IF why \in {"http_error", "transport_error"} THEN "HTTPError"
    ELSE "ToolExecutionError"

CallToolException(why) == IF why = "none" THEN "none" ELSE "ToolExecutionError"

\* disconnect: the exception that leaves disconnect when aclose raised
DisconnectRaises_Propagate(closeRaised) == closeRaised

DisconnectRaises(closeRaised) == FALSE

---------------------------------------------------------------------------
(* JSON values as Python holds them after json.loads: str, int, None, list and *)
(* dict. One record shape for every value: t is the type, s the text of a str  *)
(* or the digits of an int, l the elements of a list, o the items of a dict in *)
(* insertion order.                                                            *)

JStr(s) == [t |-> "str", s |-> s, l |-> << >>, o |-> << >>]

JNum(s) == [t |-> "int", s |-> s, l |-> << >>, o |-> << >>]

\* a float, held as its repr
JFloat(s) == [t |-> "float", s |-> s, l |-> << >>, o |-> << >>]

JNull == [t |-> "NoneType", s |-> "", l |-> << >>, o |-> << >>]

JList(l) == [t |-> "list", s |-> "", l |-> l, o |-> << >>]

JObj(o) == [t |-> "dict", s |-> "", l |-> << >>, o |-> o]

KV(k, v) == [k |-> k, v |-> v]

\* json.loads raised json.JSONDecodeError
JSONDecodeError == [t |-> "JSONDecodeError", s |-> "", l |-> << >>, o |-> << >>]

\* the call raised: there is no return value
NoReturn == [t |-> "raised", s |-> "", l |-> << >>, o |-> << >>]

IsDict(v) == v.t = "dict"

\* k in d, d[k] and d.get(k, default) of a dict
HasKey(v, k) == \E i \in DOMAIN v.o : v.o[i].k = k

Item(v, k) == v.o[CHOOSE i \in DOMAIN v.o : v.o[i].k = k].v

GetOr(v, k, default) == IF HasKey(v, k) THEN Item(v, k) ELSE default

\* the pairs <<k, s>> of the strings used here in which k is a proper substring of s
Substrings == { <<"error", "an error">> }

\* k in v raises TypeError for a number and for None
InRaises(v) == v.t \in {"int", "float", "bool", "NoneType"}

\* k in v: a key of a dict, an element of a list, a substring of a str
In(k, v) ==
    CASE v.t = "dict" -> HasKey(v, k)
      [] v.t = "list" -> \E i \in DOMAIN v.l : v.l[i] = JStr(k)
      [] v.t = "str" -> v.s = k \/ <<k, v.s>> \in Substrings
      [] OTHER -> FALSE

RECURSIVE PyRepr(_)
RECURSIVE ReprElements(_)
RECURSIVE ReprItems(_)

\* ", ".join(repr(e) for e in l)
ReprElements(l) ==
    IF l = << >> THEN ""
    ELSE IF Len(l) = 1 THEN PyRepr(l[1])
    ELSE PyRepr(l[1]) \o ", " \o ReprElements(Tail(l))

\* ", ".join(repr(k) + ": " + repr(v) for k, v in o)
ReprItems(o) ==
    IF o = << >> THEN ""
    ELSE IF Len(o) = 1 THEN "'" \o o[1].k \o "': " \o PyRepr(o[1].v)
    ELSE "'" \o o[1].k \o "': " \o PyRepr(o[1].v) \o ", " \o ReprItems(Tail(o))

\* repr(v); the strings used here hold no single quote and no backslash
PyRepr(v) ==
    CASE v.t = "str" -> "'" \o v.s \o "'"
      [] v.t \in {"int", "float", "bool"} -> v.s
      [] v.t = "NoneType" -> "None"
      [] v.t = "list" -> "[" \o ReprElements(v.l) \o "]"
      [] v.t = "dict" -> "{" \o ReprItems(v.o) \o "}"

\* str(v)
PyStr(v) == IF v.t = "str" THEN v.s ELSE PyRepr(v)

(* The response texts the model draws from, and json.loads on them.             *)

OneLinePayloads ==
    { <<"{\"result\": {\"tools\": []}}">>,
      <<"{\"result\": {\"tools\": [{\"name\": \"add\", \"description\": \"Add two numbers\"}]}}">>,
      <<"{\"result\": {\"tools\": [{\"description\": \"nameless\"}]}}">>,
      <<"{\"result\": {\"tools\": [{\"name\": \"add\"}, {\"description\": \"nameless\"}, {\"name\": \"divide\"}]}}">>,
      <<"{\"result\": {\"tools\": [{\"name\": \"\"}, {\"name\": \"add\"}]}}">>,
      <<"{\"error\": {\"code\": -32601, \"message\": \"boom\"}}">>,
      <<"{\"error\": {\"code\": -32601}}">>,
      <<"{\"error\": \"boom\"}">>,
      <<"{\"error\": null}">>,
      <<"{\"jsonrpc\": \"2.0\", \"id\": 1}">>,
      <<"{}">>,
      <<"{\"result\": {\"content\": [{\"type\": \"text\", \"text\": \"{\\\"result\\\": 4}\"}]}}">>,
      <<"{\"result\": {\"content\": [{\"type\": \"text\", \"text\": \"done\"}]}}">>,
      <<"{\"result\": {\"content\": [{\"type\": \"text\", \"text\": \"{\\\"error\\\": \\\"Cannot divide by zero\\\"}\"}]}}">>,
      <<"{\"result\": {\"content\": [{\"text\": \"4\"}, {\"text\": \"5\"}]}}">>,
      <<"{\"result\": {\"content\": [{\"text\": \"done\"}, {\"text\": \"{\\\"result\\\": 4}\"}]}}">>,
      <<"{\"result\": {\"content\": [{\"text\": 4}]}}">>,
      <<"{\"result\": {\"content\": [{\"type\": \"image\"}]}}">>,
      <<"{\"result\": {\"content\": [\"plain\"]}}">>,
      <<"{\"result\": {\"content\": []}}">>,
      <<"{\"result\": {\"content\": \"plain\"}}">>,
      <<"{\"result\": {\"content\": {\"text\": \"4\"}}}">>,
      <<"{\"result\": {\"content\": null}}">>,
      <<"{\"result\": {\"content\": 7}}">>,
      <<"{\"result\": {\"value\": 4}}">>,
      <<"{\"result\": {}}">>,
      <<"{\"result\": null}">>,
      <<"[]">>,
      <<"\"an error\"">>,
      <<"null">>,
      <<"4">> }

PrettyPayloads ==
    { <<"{", " \"result\": {", "  \"tools\": []", " }", "}">> }

BrokenPayloads ==
    { <<"{\"result\": {\"too">>,
      <<"<html>Bad Gateway</html>">>,
      <<"">> }

JsonLoads ==
    { [text |-> "{\"result\": {\"tools\": []}}",
        value |-> JObj(<<KV("result", JObj(<<KV("tools", JList(<<>>))>>))>>)],
      [text |-> "{\"result\": {\"tools\": [{\"name\": \"add\", \"description\": \"Add two numbers\"}]}}",
        value |-> JObj(<<KV("result", JObj(<<KV("tools", JList(<<JObj(<<KV("name", JStr("add")), KV("description", JStr("Add two numbers"))>>)>>))>>))>>)],
      [text |-> "{\"result\": {\"tools\": [{\"description\": \"nameless\"}]}}",
        value |-> JObj(<<KV("result", JObj(<<KV("tools", JList(<<JObj(<<KV("description", JStr("nameless"))>>)>>))>>))>>)],
      [text |-> "{\"result\": {\"tools\": [{\"name\": \"add\"}, {\"description\": \"nameless\"}, {\"name\": \"divide\"}]}}",
        value |-> JObj(<<KV("result", JObj(<<KV("tools", JList(<<JObj(<<KV("name", JStr("add"))>>), JObj(<<KV("description", JStr("nameless"))>>), JObj(<<KV("name", JStr("divide"))>>)>>))>>))>>)],
      [text |-> "{\"result\": {\"tools\": [{\"name\": \"\"}, {\"name\": \"add\"}]}}",
        value |-> JObj(<<KV("result", JObj(<<KV("tools", JList(<<JObj(<<KV("name", JStr(""))>>), JObj(<<KV("name", JStr("add"))>>)>>))>>))>>)],
      [text |-> "{\"error\": {\"code\": -32601, \"message\": \"boom\"}}",
        value |-> JObj(<<KV("error", JObj(<<KV("code", JNum("-32601")), KV("message", JStr("boom"))>>))>>)],
      [text |-> "{\"error\": {\"code\": -32601}}",
        value |-> JObj(<<KV("error", JObj(<<KV("code", JNum("-32601"))>>))>>)],
      [text |-> "{\"error\": \"boom\"}",
        value |-> JObj(<<KV("error", JStr("boom"))>>)],
      [text |-> "{\"error\": null}",
        value |-> JObj(<<KV("error", JNull)>>)],
      [text |-> "{\"jsonrpc\": \"2.0\", \"id\": 1}",
        value |-> JObj(<<KV("jsonrpc", JStr("2.0")), KV("id", JNum("1"))>>)],
      [text |-> "{}",
        value |-> JObj(<<>>)],
      [text |-> "{\"result\": {\"content\": [{\"type\": \"text\", \"text\": \"{\\\"result\\\": 4}\"}]}}",
        value |-> JObj(<<KV("result", JObj(<<KV("content", JList(<<JObj(<<KV("type", JStr("text")), KV("text", JStr("{\"result\": 4}"))>>)>>))>>))>>)],
      [text |-> "{\"result\": {\"content\": [{\"type\": \"text\", \"text\": \"done\"}]}}",
        value |-> JObj(<<KV("result", JObj(<<KV("content", JList(<<JObj(<<KV("type", JStr("text")), KV("text", JStr("done"))>>)>>))>>))>>)],
      [text |-> "{\"result\": {\"content\": [{\"type\": \"text\", \"text\": \"{\\\"error\\\": \\\"Cannot divide by zero\\\"}\"}]}}",
        value |-> JObj(<<KV("result", JObj(<<KV("content", JList(<<JObj(<<KV("type", JStr("text")), KV("text", JStr("{\"error\": \"Cannot divide by zero\"}"))>>)>>))>>))>>)],
      [text |-> "{\"result\": {\"content\": [{\"text\": \"4\"}, {\"text\": \"5\"}]}}",
        value |-> JObj(<<KV("result", JObj(<<KV("content", JList(<<JObj(<<KV("text", JStr("4"))>>), JObj(<<KV("text", JStr("5"))>>)>>))>>))>>)],
      [text |-> "{\"result\": {\"content\": [{\"text\": \"done\"}, {\"text\": \"{\\\"result\\\": 4}\"}]}}",
        value |-> JObj(<<KV("result", JObj(<<KV("content", JList(<<JObj(<<KV("text", JStr("done"))>>), JObj(<<KV("text", JStr("{\"result\": 4}"))>>)>>))>>))>>)],
      [text |-> "{\"result\": {\"content\": [{\"text\": 4}]}}",
        value |-> JObj(<<KV("result", JObj(<<KV("content", JList(<<JObj(<<KV("text", JNum("4"))>>)>>))>>))>>)],
      [text |-> "{\"result\": {\"content\": [{\"type\": \"image\"}]}}",
        value |-> JObj(<<KV("result", JObj(<<KV("content", JList(<<JObj(<<KV("type", JStr("image"))>>)>>))>>))>>)],
      [text |-> "{\"result\": {\"content\": [\"plain\"]}}",
        value |-> JObj(<<KV("result", JObj(<<KV("content", JList(<<JStr("plain")>>))>>))>>)],
      [text |-> "{\"result\": {\"content\": []}}",
        value |-> JObj(<<KV("result", JObj(<<KV("content", JList(<<>>))>>))>>)],
      [text |-> "{\"result\": {\"content\": \"plain\"}}",
        value |-> JObj(<<KV("result", JObj(<<KV("content", JStr("plain"))>>))>>)],
      [text |-> "{\"result\": {\"content\": {\"text\": \"4\"}}}",
        value |-> JObj(<<KV("result", JObj(<<KV("content", JObj(<<KV("text", JStr("4"))>>))>>))>>)],
      [text |-> "{\"result\": {\"content\": null}}",
        value |-> JObj(<<KV("result", JObj(<<KV("content", JNull)>>))>>)],
      [text |-> "{\"result\": {\"content\": 7}}",
        value |-> JObj(<<KV("result", JObj(<<KV("content", JNum("7"))>>))>>)],
      [text |-> "{\"result\": {\"value\": 4}}",
        value |-> JObj(<<KV("result", JObj(<<KV("value", JNum("4"))>>))>>)],
      [text |-> "{\"result\": {}}",
        value |-> JObj(<<KV("result", JObj(<<>>))>>)],
      [text |-> "{\"result\": null}",
        value |-> JObj(<<KV("result", JNull)>>)],
      [text |-> "[]",
        value |-> JList(<<>>)],
      [text |-> "\"an error\"",
        value |-> JStr("an error")],
      [text |-> "null",
        value |-> JNull],
      [text |-> "4",
        value |-> JNum("4")],
      [text |-> "{\n \"result\": {\n  \"tools\": []\n }\n}",
        value |-> JObj(<<KV("result", JObj(<<KV("tools", JList(<<>>))>>))>>)],
      [text |-> "{\"result\": 4}",
        value |-> JObj(<<KV("result", JNum("4"))>>)],
      [text |-> "5",
        value |-> JNum("5")],
      [text |-> "{\"error\": \"Cannot divide by zero\"}",
        value |-> JObj(<<KV("error", JStr("Cannot divide by zero"))>>)],
      [text |-> "{\"a\": \"10\", \"b\": \"0\"}",
        value |-> JObj(<<KV("a", JStr("10")), KV("b", JStr("0"))>>)] }

\* json.loads(text) on the texts above; every other text used here is not JSON
Decode(text) ==
    IF \E e \in JsonLoads : e.text = text
    THEN (CHOOSE e \in JsonLoads : e.text = text).value
    ELSE JSONDecodeError

(* A response body is its lines, the text between the '\n' characters. A line  *)
(* that starts with 'data: ' is held as that prefix and what follows it.       *)

DataPrefix == "data: "

Line(pre, text) == [pre |-> pre, text |-> text]

Blank == Line("", "")

LineText(line) == line.pre \o line.text

RECURSIVE Join(_)

\* the body as one string
Join(lines) ==
    IF lines = << >> THEN ""
    ELSE IF Len(lines) = 1 THEN LineText(lines[1])
    ELSE LineText(lines[1]) \o "\n" \o Join(Tail(lines))

\* the body that is the payload p alone
BareBody(p) == [i \in 1..Len(p) |-> Line("", p[i])]

\* "data: " + p
DataBody(p) == <<Line(DataPrefix, p[1])>> \o [i \in 1..(Len(p) - 1) |-> Line("", p[i + 1])]

\* "event: message\ndata: " + p + "\n\n"
SseBody(p) == <<Line("", "event: message")>> \o DataBody(p) \o <<Blank, Blank>>

RECURSIVE StripLeft(_)
RECURSIVE StripRight(_)

StripLeft(lines) ==
    IF lines # << >> /\ Head(lines) = Blank THEN StripLeft(Tail(lines)) ELSE lines

StripRight(lines) ==
    IF lines # << >> /\ lines[Len(lines)] = Blank
    THEN StripRight(SubSeq(lines, 1, Len(lines) - 1))
    ELSE lines

\* text.strip().split('\n'): the blank lines at both ends go, and the space that ends
\* a last line 'data: '; of a body of blank lines only, one empty line is left
StripSplit(lines) ==
    LET inner == StripRight(StripLeft(lines)) IN
    IF inner = << >> THEN <<Blank>>
    ELSE IF inner[Len(inner)] = Line(DataPrefix, "")
    THEN SubSeq(inner, 1, Len(inner) - 1) \o <<Line("", "data:")>>
    ELSE inner

\* _parse_sse_response
ParseSse_WholeOnly(body) == Decode(Join(body))

ParseSse_LastData(body) ==
    LET lines == StripSplit(body)
        data == {i \in DOMAIN lines : lines[i].pre = DataPrefix}
    IN  IF data # {}
        THEN Decode(lines[CHOOSE i \in data : \A j \in data : i >= j].text)
        ELSE Decode(Join(body))

ParseSse(body) ==
    LET lines == StripSplit(body)
        data == {i \in DOMAIN lines : lines[i].pre = DataPrefix}
    IN  IF data # {}
        THEN Decode(lines[CHOOSE i \in data : \A j \in data : i <= j].text)
        ELSE Decode(Join(body))

\* the payloads of the bodies that hold two events
EventPayloads ==
    { <<"{\"result\": {\"tools\": []}}">>,
      <<"{\"result\": {\"value\": 4}}">>,
      <<"{\"error\": {\"code\": -32601, \"message\": \"boom\"}}">>,
      <<"{\"result\": {\"too">> }

\* "event: message\ndata: " + p + "\n\nevent: message\ndata: " + q + "\n\n"
TwoEventBody(p, q) ==
    <<Line("", "event: message"), Line(DataPrefix, p[1]), Blank>> \o SseBody(q)

Bodies ==
    LET texts == OneLinePayloads \cup PrettyPayloads \cup BrokenPayloads IN
    {BareBody(p) : p \in texts} \cup {SseBody(p) : p \in texts} \cup {DataBody(p) : p \in texts}
        \cup {<<Line("", "event: message"), Blank, Blank>>}
        \cup {TwoEventBody(p, q) : p \in EventPayloads, q \in EventPayloads}

Raised(cause) == [cause |-> cause, ret |-> NoReturn]

Returned(value) == [cause |-> "none", ret |-> value]

\* {"result": value}
Wrapped(value) == JObj(<<KV("result", value)>>)

\* connect, from the response to the initialize request on; the notification is accepted
ConnectHandle(sid, body) ==
    LET result == ParseSse(body) IN
    IF sid = None THEN Raised("no_session_id")
    ELSE IF result = JSONDecodeError THEN Raised("JSONDecodeError")
    ELSE IF InRaises(result) THEN Raised("TypeError")
    ELSE IF In("error", result)
         \* f"Initialization failed: {result['error']}" indexes result before the raise
         THEN IF IsDict(result) THEN Raised("init_error") ELSE Raised("TypeError")
    ELSE Returned(JNull)

\* list_tools: one entry of the list comprehension
ToolEntryRaises(tool) ==
    IF ~IsDict(tool) THEN "TypeError"
    ELSE IF ~HasKey(tool, "name") THEN "KeyError"
    ELSE "none"

ToolEntry(tool) ==
    JObj(<<KV("name", Item(tool, "name")),
           KV("description", GetOr(tool, "description", JStr(""))),
           KV("inputSchema", GetOr(tool, "inputSchema", JObj(<< >>)))>>)

\* list_tools: tools = [... for tool in tools_data]
ToolsOf(tools_data) ==
    CASE tools_data.t = "list" ->
            IF \E i \in DOMAIN tools_data.l : ToolEntryRaises(tools_data.l[i]) # "none"
            THEN LET first == CHOOSE i \in DOMAIN tools_data.l :
                                /\ ToolEntryRaises(tools_data.l[i]) # "none"
                                /\ \A j \in 1..(i - 1) : ToolEntryRaises(tools_data.l[j]) = "none"
                 IN  Raised(ToolEntryRaises(tools_data.l[first]))
            ELSE Returned(JList([i \in DOMAIN tools_data.l |-> ToolEntry(tools_data.l[i])]))
      [] tools_data.t = "dict" ->
            IF tools_data.o = << >> THEN Returned(JList(<< >>)) ELSE Raised("TypeError")
      [] tools_data.t = "str" ->
            IF tools_data.s = "" THEN Returned(JList(<< >>)) ELSE Raised("TypeError")
      [] OTHER -> Raised("TypeError")

\* list_tools, from the response to the tools/list request on
ListHandle(body) ==
    LET result == ParseSse(body) IN
    IF result = JSONDecodeError THEN Raised("JSONDecodeError")
    ELSE IF InRaises(result) THEN Raised("TypeError")
    ELSE IF In("error", result)
         \* f"Failed to list tools: {result['error']}" indexes result before the raise
         THEN IF IsDict(result) THEN Raised("list_error") ELSE Raised("TypeError")
    ELSE IF ~IsDict(result) THEN Raised("AttributeError")
    ELSE LET payload == GetOr(result, "result", JObj(<< >>)) IN
         IF ~IsDict(payload) THEN Raised("AttributeError")
         ELSE ToolsOf(GetOr(payload, "tools", JList(<< >>)))

\* call_tool: result_dict = json.loads(first_content["text"]), except JSONDecodeError
TextResult_AlwaysWrap(text) == Returned(Wrapped(JStr(text)))

TextResult(text) ==
    IF Decode(text) = JSONDecodeError
    THEN Returned(Wrapped(JStr(text)))
    ELSE Returned(Decode(text))

\* call_tool: return {"result": str(content)}
Stringified_Bare(content) == Returned(JStr(PyStr(content)))

Stringified(content) == Returned(Wrapped(JStr(PyStr(content))))

\* call_tool: the content array format
Normalize(tool_result) ==
    IF InRaises(tool_result) THEN Raised("TypeError")
    ELSE IF ~In("content", tool_result) THEN Returned(tool_result)
    ELSE IF ~IsDict(tool_result) THEN Raised("TypeError")
    ELSE LET content == Item(tool_result, "content") IN
         IF content.t = "list" /\ Len(content.l) > 0
         THEN LET first_content == content.l[1] IN
              IF IsDict(first_content) /\ HasKey(first_content, "text")
              THEN LET text == Item(first_content, "text") IN
                   IF text.t # "str" THEN Raised("TypeError") ELSE TextResult(text.s)
              ELSE Stringified(first_content)
         ELSE Stringified(content)

\* call_tool: the top-level error, {"error": result["error"].get("message", str(...))}
ErrorResult(result) ==
    IF ~IsDict(result) THEN Raised("TypeError")
    ELSE LET error == Item(result, "error") IN
         IF ~IsDict(error) THEN Raised("AttributeError")
         ELSE Returned(JObj(<<KV("error", GetOr(error, "message", JStr(PyStr(error))))>>))

\* call_tool, from the response to the tools/call request on
CallHandle(body) ==
    LET result == ParseSse(body) IN
    IF result = JSONDecodeError THEN Raised("JSONDecodeError")
    ELSE IF InRaises(result) THEN Raised("TypeError")
    ELSE IF In("error", result) THEN ErrorResult(result)
    ELSE IF ~IsDict(result) THEN Raised("AttributeError")
    ELSE Normalize(GetOr(result, "result", JObj(<< >>)))

---------------------------------------------------------------------------
(* ToolRegistry. self._tools is a dict from tool name to tool definition; it   *)
(* is held as the dict value JObj, items in insertion order. The input schemas *)
(* used here are dicts.                                                        *)

\* bool(v)
Truthy(v) ==
    CASE v.t = "str" -> v.s # ""
      [] v.t = "int" -> v.s # "0"
      [] v.t = "float" -> v.s \notin {"0.0", "-0.0"}
      [] v.t = "list" -> v.l # << >>
      [] v.t = "dict" -> v.o # << >>
      [] v.t = "bool" -> v.s = "True"
      [] OTHER -> FALSE

JBool(b) == [t |-> "bool", s |-> IF b THEN "True" ELSE "False", l |-> << >>, o |-> << >>]

EmptyRegistry == JObj(<< >>)

\* d[k] = v on a dict: a held key keeps its place, a new key goes to the end
Put_Append(d, k, v) == JObj(Append(d.o, KV(k, v)))

Put(d, k, v) ==
    IF HasKey(d, k)
    THEN JObj([i \in DOMAIN d.o |-> IF d.o[i].k = k THEN KV(k, v) ELSE d.o[i]])
    ELSE JObj(Append(d.o, KV(k, v)))

\* register_tool
RegisterTool_NoNameCheck(tools, tool) == Put(tools, GetOr(tool, "name", JNull).s, tool)

RegisterTool(tools, tool) ==
    LET name == GetOr(tool, "name", JNull) IN
    IF ~Truthy(name) THEN tools ELSE Put(tools, name.s, tool)

RECURSIVE RegisterTools(_, _)

\* register_tools
RegisterTools(tools, defs) ==
    IF defs = << >> THEN tools
    ELSE RegisterTools(RegisterTool(tools, Head(defs)), Tail(defs))

\* get_tool
GetTool(tools, name) ==
    LET tool == GetOr(tools, name, JNull) IN
    IF ~Truthy(tool) THEN Raised("ToolNotFoundError") ELSE Returned(tool)

\* get_all_tools
GetAllTools(tools) == JList([i \in DOMAIN tools.o |-> tools.o[i].v])

\* tool_exists
ToolExists(tools, name) == JBool(HasKey(tools, name))

\* _transform_input_schema: the parameters of a tool without input schema
DefaultParameters_Empty == JObj(<< >>)

DefaultParameters ==
    JObj(<<KV("type", JStr("object")), KV("properties", JObj(<< >>)),
           KV("required", JList(<< >>))>>)

\* _transform_input_schema: one property, copied, with a description added when it has none
EnhanceProperty_Overwrite(prop_name, prop_schema) ==
    Put(prop_schema, "description", JStr("The " \o prop_name \o " parameter"))

EnhanceProperty(prop_name, prop_schema) ==
    IF HasKey(prop_schema, "description") THEN prop_schema
    ELSE Put(prop_schema, "description", JStr("The " \o prop_name \o " parameter"))

\* _transform_input_schema: input_schema.get("required", [])
RequiredOf_Empty(input_schema) == JList(<< >>)

RequiredOf(input_schema) == GetOr(input_schema, "required", JList(<< >>))

\* _transform_input_schema
TransformInputSchema(input_schema) ==
    IF ~Truthy(input_schema) THEN DefaultParameters
    ELSE LET properties == GetOr(input_schema, "properties", JObj(<< >>)) IN
         JObj(<<KV("type", JStr("object")),
                KV("properties",
                   JObj([i \in DOMAIN properties.o |->
                           KV(properties.o[i].k,
                              EnhanceProperty(properties.o[i].k, properties.o[i].v))])),
                KV("required", RequiredOf(input_schema))>>)

\* to_ollama_format: the entry of one tool
OllamaTool(tool) ==
    JObj(<<KV("type", JStr("function")),
           KV("function",
              JObj(<<KV("name", Item(tool, "name")),
                     KV("description", GetOr(tool, "description", JStr(""))),
                     KV("parameters",
                        TransformInputSchema(GetOr(tool, "inputSchema", JObj(<< >>))))>>))>>)

\* to_ollama_format
ToOllamaFormat(tools) == JList([i \in DOMAIN tools.o |-> OllamaTool(tools.o[i].v)])

(* The tool definitions and the names the registry is used with.               *)

NumberProperty == JObj(<<KV("type", JStr("number"))>>)

AddTool ==
    JObj(<<KV("name", JStr("add")), KV("description", JStr("Add two numbers")),
           KV("inputSchema",
              JObj(<<KV("type", JStr("object")),
                     KV("properties",
                        JObj(<<KV("a", JObj(<<KV("type", JStr("number")),
                                              KV("description", JStr("First number"))>>)),
                               KV("b", NumberProperty)>>)),
                     KV("required", JList(<<JStr("a"), JStr("b")>>))>>))>>)

AddToolPlain ==
    JObj(<<KV("name", JStr("add")), KV("description", JStr("Add")),
           KV("inputSchema", JObj(<< >>))>>)

DivideTool ==
    JObj(<<KV("name", JStr("divide")),
           KV("inputSchema",
              JObj(<<KV("type", JStr("object")),
                     KV("properties", JObj(<<KV("a", NumberProperty)>>))>>))>>)

EchoTool == JObj(<<KV("name", JStr("echo"))>>)

EmptyNameTool == JObj(<<KV("name", JStr("")), KV("description", JStr("empty name"))>>)

NamelessTool == JObj(<<KV("description", JStr("nameless"))>>)

ToolDefinitions == {AddTool, AddToolPlain, DivideTool, EchoTool, EmptyNameTool, NamelessTool}

RegistryNames == {"add", "divide", "echo", "sqrt", ""}

---------------------------------------------------------------------------
(* Messages and outcomes of the HttpMCPClient *)

Msg(method, id, sid, conn, tool) ==
    [method |-> method, id |-> id, sid |-> sid, conn |-> conn, tool |-> tool]

NoResponse == [status |-> None, sid |-> None, kind |-> None, tools |-> << >>]

\* How a call ended: the exception it raised ("none": it returned), why, the value
\* it returned, the messages it sent, the request ids it took and the answer it read.
Outcome(op, exc, why, ret, nsent, nids, resp) ==
    [op |-> op, exc |-> exc, why |-> why, ret |-> ret, nsent |-> nsent, nids |-> nids,
     resp |-> resp]

Connect ==
    /\ Len(conns) < MaxConns
    /\ Len(sent) < MaxSent
    /\ request_id < MaxRequestId
    /\ \E r \in InitResponses, n \in NotifyOutcomes :
        LET c == Len(conns) + 1
            rid == NextRequestId(request_id)
            initMsg == Msg("initialize", rid, None, c, "")
            sid == SessionAfterInitialize(session_id, r)
            note == Msg("notifications/initialized", 0, sid, c, "")
            fail == InitializeFailure(r)
            why == IF fail # "none" THEN fail ELSE NotifyFailure(n)
        IN  /\ client' = c
            /\ conns' = Append(conns, "open")
            /\ request_id' = rid
            /\ session_id' = sid
            /\ sent' = IF fail = "none" THEN sent \o <<initMsg, note>>
                       ELSE Append(sent, initMsg)
            /\ last' = Outcome("connect",
                               IF ConnectRaises(why) THEN "MCPConnectionError" ELSE "none",
                               why, None,
                               IF fail = "none" THEN 2 ELSE 1, 1, r)
            /\ goodSid' = IF fail = "none" THEN r.sid ELSE goodSid
            /\ reconnected' = (lifecycle = "disconnect" /\ why = "none")
    /\ everConnected' = TRUE
    /\ lifecycle' = "connect"
    /\ quiet' = FALSE
    /\ sessionList' = None
    /\ UNCHANGED tools_cache

\* disconnect. AsyncClient.aclose marks the client closed before it awaits the
\* transport's close, which may raise; on a client that is already closed it does
\* nothing. A raising aclose skips the two assignments that follow it.
Disconnect ==
    /\ \E closeRaises \in BOOLEAN :
        LET raised == client # NoClient /\ conns[client] = "open" /\ closeRaises
        IN  /\ conns' = IF client # NoClient THEN [conns EXCEPT ![client] = "closed"]
                        ELSE conns
            /\ IF client # NoClient /\ ~raised
               THEN client' = NoClient /\ session_id' = None
               ELSE UNCHANGED <<client, session_id>>
            /\ last' = Outcome("disconnect",
                               IF DisconnectRaises(raised) THEN "Exception" ELSE "none",
                               IF raised THEN "close_failed" ELSE "none", None, 0, 0,
                               NoResponse)
    /\ quiet' = (last.op = "disconnect" \/ ~everConnected)
    /\ lifecycle' = "disconnect"
    /\ sessionList' = None
    /\ reconnected' = FALSE
    /\ UNCHANGED <<tools_cache, request_id, sent, everConnected, goodSid>>

ListTools ==
    /\ request_id < MaxRequestId
    /\ Len(sent) < MaxSent
    /\ IF NotConnected(client, session_id)
       THEN /\ last' = Outcome("list_tools", "MCPConnectionError", "not_connected", None, 0, 0,
                            NoResponse)
            /\ UNCHANGED <<tools_cache, request_id, sent>>
       ELSE IF CacheHit(tools_cache)
       THEN /\ last' = Outcome("list_tools", "none", "cached", tools_cache, 0, 0,
                            NoResponse)
            /\ UNCHANGED <<tools_cache, request_id, sent>>
       ELSE LET rid == NextRequestId(request_id) IN
            /\ request_id' = rid
            /\ IF conns[client] = "closed"
               THEN /\ last' = Outcome("list_tools", "MCPConnectionError", "closed", None, 0, 1,
                                    NoResponse)
                    /\ UNCHANGED <<tools_cache, sent>>
               ELSE \E r \in ListResponses :
                    LET why == IF PostRaises(r) THEN r.status
                               ELSE IF ParseRaises(r) THEN "malformed"
                               ELSE IF r.kind = "error" THEN "rpc_error"
                               ELSE "none"
                    IN  /\ sent' = Append(sent, Msg("tools/list", rid, session_id, client, ""))
                        /\ tools_cache' = IF why = "none" THEN r.tools ELSE tools_cache
                        /\ last' = Outcome("list_tools", ListToolsException(why),
                                           why, IF why = "none" THEN r.tools ELSE None, 1, 1, r)
    /\ sessionList' = IF sessionList = None /\ last'.exc = "none" THEN last'.ret
                      ELSE sessionList
    /\ UNCHANGED <<client, session_id, conns, everConnected, lifecycle, quiet, goodSid,
                   reconnected>>

CallTool ==
    /\ request_id < MaxRequestId
    /\ Len(sent) < MaxSent
    /\ \E name \in ToolNames :
       IF NotConnected(client, session_id)
       THEN /\ last' = Outcome("call_tool", "MCPConnectionError", "not_connected", None, 0, 0,
                            NoResponse)
            /\ UNCHANGED <<request_id, sent>>
       ELSE LET rid == NextRequestId(request_id) IN
            /\ request_id' = rid
            /\ \/ \* the arguments cannot be encoded (json.dumps(request) for the log,
                  \* then the encoding of the body by post): the id is taken, nothing
                  \* is posted, except Exception makes it ToolExecutionError
                  /\ last' = Outcome("call_tool", "ToolExecutionError", "not_encodable",
                                     None, 0, 1, NoResponse)
                  /\ UNCHANGED sent
               \/ IF conns[client] = "closed"
                  THEN /\ last' = Outcome("call_tool", "ToolExecutionError", "closed", None, 0, 1,
                                       NoResponse)
                       /\ UNCHANGED sent
                  ELSE \E r \in CallResponses :
                       LET why == IF PostRaises(r) THEN r.status
                                  ELSE IF ParseRaises(r) THEN "malformed"
                                  ELSE "none"
                       IN  /\ sent' = Append(sent, Msg("tools/call", rid, session_id, client, name))
                           /\ last' = Outcome("call_tool", CallToolException(why),
                                              why,
                                              IF why # "none" THEN None
                                              ELSE IF r.kind = "error" THEN "error" ELSE "result",
                                              1, 1, r)
    /\ UNCHANGED <<client, session_id, tools_cache, conns, everConnected, lifecycle, quiet,
                   goodSid, sessionList, reconnected>>

---------------------------------------------------------------------------
(* One HttpMCPClient instance under arbitrary call sequences *)

NewInstance ==
    /\ client = NoClient
    /\ session_id = None
    /\ tools_cache = None
    /\ request_id = InitialRequestId
    /\ last = Outcome("init", "none", "none", None, 0, 0, NoResponse)
    /\ everConnected = FALSE
    /\ lifecycle = "new"
    /\ quiet = FALSE
    /\ goodSid = None
    /\ sessionList = None
    /\ reconnected = FALSE

\* No chat handler is running and no response is being handled on its own.
NoHandlers == << >>
NoWire ==
    [op |-> "none", sid |-> None, body |-> << >>, parsed |-> JNull,
     cause |-> "none", exc |-> "none", ret |-> NoReturn]

\* No registry call has been made, no tool call is being handled by the chat
\* service and none by the calculator server.
NoReg ==
    [op |-> "none", arg |-> JNull, before |-> EmptyRegistry, exc |-> "none", ret |-> NoReturn]

NoChat ==
    [state |-> "none", tool |-> "", arguments |-> JNull, body |-> << >>,
     coerced |-> NoReturn, exc |-> "none", ret |-> NoReturn, chunks |-> << >>,
     llm_calls |-> 0]

\* an argument of a calculator tool: a number, or None when it is not given
Num(n) == [given |-> TRUE, n |-> n]

NoArg == [given |-> FALSE, n |-> 0]

NoCalc ==
    [op |-> "none", operation |-> "", a |-> NoArg, b |-> NoArg, exc |-> "none", msg |-> "",
     ret |-> {}]

\* a ConversationManager that was not built, and a WebSocket that was not opened
NoConv ==
    [max_history |-> 0, messages |-> << >>, added |-> << >>, op |-> "none",
     limit |-> NoArg, before |-> << >>, ret |-> << >>, fresh |-> TRUE]

NoWs ==
    [pc |-> "none", received |-> "", frames |-> << >>, tool_calls |-> << >>, i |-> 0,
     before |-> << >>, answers |-> << >>, llm |-> << >>, executed |-> << >>,
     failed |-> 0, turns |-> 0]

\* The parts of the state that the HttpMCPClient specification does not use.
Unused ==
    /\ registry = EmptyRegistry
    /\ reg = NoReg
    /\ chat = NoChat
    /\ calc = NoCalc
    /\ conv = NoConv
    /\ ws = NoWs

Init ==
    /\ NewInstance
    /\ conns = << >>
    /\ sent = << >>
    /\ app = "direct"
    /\ inflight = NoHandlers
    /\ wire = NoWire
    /\ Unused

ClientConnect == Connect /\ UNCHANGED <<app, inflight, wire, registry, reg, chat, calc, conv, ws>>
ClientDisconnect == Disconnect /\ UNCHANGED <<app, inflight, wire, registry, reg, chat, calc, conv, ws>>
ClientListTools == ListTools /\ UNCHANGED <<app, inflight, wire, registry, reg, chat, calc, conv, ws>>
ClientCallTool == CallTool /\ UNCHANGED <<app, inflight, wire, registry, reg, chat, calc, conv, ws>>

Next ==
    \/ ClientConnect
    \/ ClientDisconnect
    \/ ClientListTools
    \/ ClientCallTool

Spec == Init /\ [][Next]_vars

---------------------------------------------------------------------------
(* The application: lifespan -> initialize_services -> ChatService.initialize,  *)
(* chat messages calling tools, shutdown_services -> ChatService.shutdown.      *)

AppInit ==
    /\ NewInstance
    /\ conns = << >>
    /\ sent = << >>
    /\ app = "down"
    /\ inflight = NoHandlers
    /\ wire = NoWire
    /\ Unused

\* the entry list_tools builds for a tool the server named, without description
\* and without input schema
ListedTool(name) ==
    JObj(<<KV("name", JStr(name)), KV("description", JStr("")),
           KV("inputSchema", JObj(<< >>))>>)

ListedTools(names) == [i \in DOMAIN names |-> ListedTool(names[i])]

\* lifespan start: get_chat_service builds the singletons, among them a fresh
\* HttpMCPClient (shutdown_services dropped the previous one). get_tool_registry
\* is cached with lru_cache: every start is handed the ToolRegistry that the first
\* start created, with whatever it holds.
AppStart ==
    /\ app = "down"
    /\ Len(conns) < MaxConns
    /\ Len(sent) < MaxSent
    /\ client' = NoClient
    /\ session_id' = None
    /\ tools_cache' = None
    /\ request_id' = InitialRequestId
    /\ last' = Outcome("init", "none", "none", None, 0, 0, NoResponse)
    /\ everConnected' = FALSE
    /\ lifecycle' = "new"
    /\ quiet' = FALSE
    /\ goodSid' = None
    /\ sessionList' = None
    /\ reconnected' = FALSE
    /\ app' = "connecting"
    /\ UNCHANGED <<conns, sent, inflight, wire, registry, reg, chat, calc, conv, ws>>

\* ChatService.initialize: await self._mcp.connect(); an exception ends the start-up
AppConnect ==
    /\ app = "connecting"
    /\ Connect
    /\ app' = IF last'.exc = "none" THEN "listing" ELSE "stopping"
    /\ UNCHANGED <<inflight, wire, registry, reg, chat, calc, conv, ws>>

\* ChatService.initialize: tools = await self._mcp.list_tools(); register_tools;
\* await self._ollama.verify_connection()
AppListTools ==
    /\ app = "listing"
    /\ ListTools
    /\ registry' = IF last'.exc = "none"
                   THEN RegisterTools(registry, ListedTools(last'.ret))
                   ELSE registry
    /\ \E ollamaOk \in BOOLEAN :
        app' = IF last'.exc = "none" /\ ollamaOk THEN "serving" ELSE "stopping"
    /\ UNCHANGED <<inflight, wire, reg, chat, calc, conv, ws>>

\* ChatService._handle_tool_calls: result = await self._mcp.call_tool(...)
AppCallTool ==
    /\ app = "serving"
    /\ CallTool
    /\ UNCHANGED <<app, inflight, wire, registry, reg, chat, calc, conv, ws>>

\* shutdown_services: await _chat_service.shutdown(), which disconnects; the
\* module's references are set to None and clear() is not called
AppShutdown ==
    /\ app \in {"serving", "stopping"}
    /\ Disconnect
    /\ app' = "down"
    /\ UNCHANGED <<inflight, wire, registry, reg, chat, calc, conv, ws>>

AppNext ==
    \/ AppStart
    \/ AppConnect
    \/ AppListTools
    \/ AppCallTool
    \/ AppShutdown

AppSpec == AppInit /\ [][AppNext]_vars

---------------------------------------------------------------------------
(* The running application with several WebSocket chats. Every chat_endpoint   *)
(* coroutine uses the one ChatService and the one HttpMCPClient that           *)
(* get_chat_service hands out; a coroutine gives up control at each await, so  *)
(* call_tool is two steps: up to the await of the POST, and from the response  *)
(* on.                                                                         *)

NumHandlers == 2

\* the most tool calls in one LLM reply
MaxBatch == 2

Handlers == 1..NumHandlers

\* where one chat_endpoint coroutine is suspended. pc: "idle" (receive_text),
\* "llm" (the first chat_with_tools), "calling" (the POST of call_tool), "follow_up_llm"
\* (the chat_with_tools after a tool result), "sending" (send_text(chunk)), "done"
\* (send_text("[DONE]")), "error" (the except clause of chat_endpoint: send_text of the
\* error frame and of the "[DONE]" after it); id and tool: the request awaited; rest: the tool calls of
\* the batch that the for loop of _handle_tool_calls has not reached yet
Handler(pc, id, tool, rest) == [pc |-> pc, id |-> id, tool |-> tool, rest |-> rest]

Idle == Handler("idle", 0, "", << >>)

\* response_message["tool_calls"], when it is not empty: the tools asked for. Every
\* call here has arguments that the request can be encoded with; a call_tool that
\* takes an id and fails before it posts is in CallTool and AfterCallTool
ConcBatches == UNION {[1..n -> ToolNames] : n \in 1..MaxBatch}

\* what _handle_tool_calls finds in the value that call_tool returned: a dict
\* without "error" ("value": on to the follow-up LLM call), a dict with "error"
\* ("error": its chunk is yielded and the generator returns), or a number or None
\* ("not_dict": "error" in result raises TypeError, caught in the loop)
ToolResults == {"value", "error", "not_dict"}

ConcInit ==
    /\ NewInstance
    /\ conns = << >>
    /\ sent = << >>
    /\ app = "down"
    /\ inflight = [h \in Handlers |-> Idle]
    /\ wire = NoWire
    /\ Unused

\* what a step of handler h starts from
Running(h) ==
    [request_id |-> request_id, sent |-> sent, last |-> last, handler |-> inflight[h]]

\* chat_endpoint: a send_text inside the try raised. The generator is abandoned with
\* the tool calls it had to go; the except clause sends the error frame and then
\* "[DONE]": the coroutine is suspended there ("error"), or both complete at once,
\* as the transport decides. When one of the two raises the loop is left and the
\* connection closed: the handler is free for the next connection
Abandoned(st) ==
    {[st EXCEPT !.handler = Handler("error", 0, "", << >>)], [st EXCEPT !.handler = Idle]}

RECURSIVE RunCalls(_, _)

RECURSIVE Yielded(_, _)

\* the coroutine from the top of the for loop of _handle_tool_calls, with the tool
\* calls rest to go: the states in which it can be suspended next. Each call_tool:
\* the connection guard, _next_request_id, the request posted. A call_tool that
\* raises is caught in the loop, its chunk is yielded and sent by chat_endpoint,
\* and the loop goes on; after the loop "[DONE]" is sent, which suspends the
\* coroutine, raises, or completes at once, and then receive_text is awaited
RunCalls(st, rest) ==
    IF rest = << >>
    THEN {[st EXCEPT !.handler = Handler("done", 0, "", << >>)],
          [st EXCEPT !.handler = Idle]} \cup Abandoned(st)
    ELSE LET name == Head(rest)
             rid == NextRequestId(st.request_id)
         IN  IF NotConnected(client, session_id)
             THEN Yielded([st EXCEPT
                     !.last = Outcome("call_tool", "MCPConnectionError", "not_connected",
                                      None, 0, 0, NoResponse)], Tail(rest))
             ELSE IF conns[client] = "closed"
             THEN Yielded([st EXCEPT
                     !.request_id = rid,
                     !.last = Outcome("call_tool", "ToolExecutionError", "closed",
                                      None, 0, 1, NoResponse)], Tail(rest))
             ELSE {[st EXCEPT
                     !.request_id = rid,
                     !.sent = Append(@, Msg("tools/call", rid, session_id, client, name)),
                     !.handler = Handler("calling", rid, name, Tail(rest))]}

\* the generator has yielded a chunk with the tool calls rest to go: chat_endpoint
\* awaits send_text(chunk), which suspends the coroutine, raises, or completes at
\* once, and then the generator is resumed
Yielded(st, rest) ==
    {[st EXCEPT !.handler = Handler("sending", 0, "", rest)]}
        \cup Abandoned(st) \cup RunCalls(st, rest)

\* a step of handler h ends in st
Suspended(h, st) ==
    /\ request_id' = st.request_id
    /\ sent' = st.sent
    /\ last' = st.last
    /\ inflight' = [inflight EXCEPT ![h] = st.handler]

\* the requests and ids that the tool calls rest may take stay within the bounds
CallsFit(rest) ==
    request_id + Len(rest) <= MaxRequestId /\ Len(sent) + Len(rest) <= MaxSent

\* chat_endpoint: user_message = await websocket.receive_text(), then
\* process_message up to response = await self._ollama.chat_with_tools(...)
WsReceive(h) ==
    /\ app = "serving"
    /\ inflight[h].pc = "idle"
    /\ inflight' = [inflight EXCEPT ![h] = Handler("llm", 0, "", << >>)]
    /\ UNCHANGED <<client, session_id, tools_cache, request_id, conns, sent, last,
                   everConnected, lifecycle, quiet, goodSid, sessionList, reconnected,
                   wire, app,
                   registry, reg, chat, calc, conv, ws>>

\* process_message: the LLM answered without tool calls (or failed); one chunk is
\* yielded, chat_endpoint awaits send_text(chunk), then send_text("[DONE]"), then
\* receive_text
WsAnswer(h) ==
    /\ inflight[h].pc = "llm"
    /\ \E st \in Yielded(Running(h), << >>) : Suspended(h, st)
    /\ UNCHANGED <<client, session_id, tools_cache, conns, everConnected, lifecycle, quiet,
                   goodSid, sessionList, reconnected, wire, app,
                   registry, reg, chat, calc, conv, ws>>

\* process_message: the LLM answered with tool calls; _handle_tool_calls ->
\* call_tool, up to response = await self._client.post(...)
WsCallToolSend(h) ==
    /\ inflight[h].pc = "llm"
    /\ \E tool_calls \in ConcBatches :
        /\ CallsFit(tool_calls)
        /\ \E st \in RunCalls(Running(h), tool_calls) : Suspended(h, st)
    /\ UNCHANGED <<client, session_id, tools_cache, conns, everConnected, lifecycle, quiet,
                   goodSid, sessionList, reconnected, wire, app,
                   registry, reg, chat, calc, conv, ws>>

\* call_tool from the response on, then _handle_tool_calls up to the next await:
\* a raising call_tool is caught, its chunk yielded and the loop goes on; so is the
\* TypeError of "error" in result on a result that is no dict; a result with an
\* error is yielded and the generator returns; any other result is given to
\* final_response = await self._ollama.chat_with_tools(...)
WsCallToolReceive(h) ==
    /\ inflight[h].pc = "calling"
    /\ CallsFit(inflight[h].rest)
    /\ \E r \in CallResponses :
        LET why == IF PostRaises(r) THEN r.status
                   ELSE IF ParseRaises(r) THEN "malformed"
                   ELSE "none"
            answered == [Running(h) EXCEPT
                           !.last = Outcome("call_tool", CallToolException(why), why,
                                            IF why # "none" THEN None
                                            ELSE IF r.kind = "error" THEN "error"
                                            ELSE "result",
                                            1, 1, r)]
            Follows(result) ==
                IF why # "none" THEN Yielded(answered, inflight[h].rest)
                ELSE IF r.kind = "error" \/ result = "error"
                THEN Yielded(answered, << >>)
                ELSE IF result = "not_dict"
                THEN Yielded(answered, inflight[h].rest)
                ELSE {[answered EXCEPT
                         !.handler = Handler("follow_up_llm", 0, "", inflight[h].rest)]}
        IN  \E st \in UNION {Follows(result) : result \in ToolResults} : Suspended(h, st)
    /\ UNCHANGED <<client, session_id, tools_cache, conns, everConnected, lifecycle, quiet,
                   goodSid, sessionList, reconnected, wire, app,
                   registry, reg, chat, calc, conv, ws>>

\* _handle_tool_calls: the follow-up chat_with_tools answered (or failed); its chunk
\* is yielded and the loop goes on to the next tool call
WsFollowUp(h) ==
    /\ inflight[h].pc = "follow_up_llm"
    /\ CallsFit(inflight[h].rest)
    /\ \E st \in Yielded(Running(h), inflight[h].rest) : Suspended(h, st)
    /\ UNCHANGED <<client, session_id, tools_cache, conns, everConnected, lifecycle, quiet,
                   goodSid, sessionList, reconnected, wire, app,
                   registry, reg, chat, calc, conv, ws>>

\* chat_endpoint: send_text(chunk) is over: it returned and the generator is
\* resumed, or it raised and the generator is abandoned
WsSent(h) ==
    /\ inflight[h].pc = "sending"
    /\ CallsFit(inflight[h].rest)
    /\ \E st \in RunCalls(Running(h), inflight[h].rest) \cup Abandoned(Running(h)) :
          Suspended(h, st)
    /\ UNCHANGED <<client, session_id, tools_cache, conns, everConnected, lifecycle, quiet,
                   goodSid, sessionList, reconnected, wire, app,
                   registry, reg, chat, calc, conv, ws>>

\* chat_endpoint: send_text("[DONE]") is over: back to receive_text, or it raised
\* and the except clause sends the error frame
WsDone(h) ==
    /\ inflight[h].pc = "done"
    /\ \E st \in {[Running(h) EXCEPT !.handler = Idle]} \cup Abandoned(Running(h)) :
          Suspended(h, st)
    /\ UNCHANGED <<client, session_id, tools_cache, conns, everConnected, lifecycle, quiet,
                   goodSid, sessionList, reconnected, wire, app,
                   registry, reg, chat, calc, conv, ws>>

\* chat_endpoint, except Exception: the send_text of the error frame and of "[DONE]"
\* are over; back to receive_text, or the loop is left
WsError(h) ==
    /\ inflight[h].pc = "error"
    /\ inflight' = [inflight EXCEPT ![h] = Idle]
    /\ UNCHANGED <<client, session_id, tools_cache, request_id, conns, sent, last,
                   everConnected, lifecycle, quiet, goodSid, sessionList, reconnected,
                   wire, app,
                   registry, reg, chat, calc, conv, ws>>

ConcNext ==
    \/ AppStart
    \/ AppConnect
    \/ AppListTools
    \/ \E h \in Handlers : WsReceive(h)
    \/ \E h \in Handlers : WsAnswer(h)
    \/ \E h \in Handlers : WsCallToolSend(h)
    \/ \E h \in Handlers : WsCallToolReceive(h)
    \/ \E h \in Handlers : WsFollowUp(h)
    \/ \E h \in Handlers : WsSent(h)
    \/ \E h \in Handlers : WsDone(h)
    \/ \E h \in Handlers : WsError(h)

ConcSpec == ConcInit /\ [][ConcNext]_vars

---------------------------------------------------------------------------
(* Response handling alone: each operation applied to one response body that   *)
(* came with status 200.                                                       *)

WireOutcome(op, sid, body, out, exc) ==
    [op |-> op, sid |-> sid, body |-> body, parsed |-> ParseSse(body),
     cause |-> out.cause, exc |-> exc, ret |-> out.ret]

\* a response that has arrived and is not handled yet
Arrived(sid, body) == [NoWire EXCEPT !.sid = sid, !.body = body]

WireInit ==
    /\ NewInstance
    /\ conns = << >>
    /\ sent = << >>
    /\ app = "direct"
    /\ inflight = NoHandlers
    /\ \E sid \in SessionIds \cup {None}, body \in Bodies : wire = Arrived(sid, body)
    /\ Unused

WireConnect ==
    /\ wire.op = "none"
    /\ LET out == ConnectHandle(wire.sid, wire.body) IN
        wire' = WireOutcome("connect", wire.sid, wire.body, out,
                            IF ConnectRaises(out.cause) THEN "MCPConnectionError" ELSE "none")
    /\ UNCHANGED <<client, session_id, tools_cache, request_id, conns, sent, last,
                   everConnected, lifecycle, quiet, goodSid, sessionList, reconnected,
                   inflight, app,
                   registry, reg, chat, calc, conv, ws>>

WireListTools ==
    /\ wire.op = "none"
    /\ LET out == ListHandle(wire.body) IN
        wire' = WireOutcome("list_tools", None, wire.body, out, ListToolsException(out.cause))
    /\ UNCHANGED <<client, session_id, tools_cache, request_id, conns, sent, last,
                   everConnected, lifecycle, quiet, goodSid, sessionList, reconnected,
                   inflight, app,
                   registry, reg, chat, calc, conv, ws>>

WireCallTool ==
    /\ wire.op = "none"
    /\ LET out == CallHandle(wire.body) IN
        wire' = WireOutcome("call_tool", None, wire.body, out, CallToolException(out.cause))
    /\ UNCHANGED <<client, session_id, tools_cache, request_id, conns, sent, last,
                   everConnected, lifecycle, quiet, goodSid, sessionList, reconnected,
                   inflight, app,
                   registry, reg, chat, calc, conv, ws>>

\* ChatService.initialize on a client whose connect succeeded, from the answer to
\* the tools/list request on: tools = await self._mcp.list_tools();
\* self._tools.register_tools(tools); await self._ollama.verify_connection(),
\* which returns when the model is available and raises OllamaError otherwise,
\* after the tools have been registered
WireInitialize ==
    /\ wire.op = "none"
    /\ \E verified \in BOOLEAN :
        LET out == ListHandle(wire.body)
            exc == ListToolsException(out.cause)
        IN  /\ exc # "none" => verified
            /\ wire' = WireOutcome("initialize", None, wire.body,
                                   IF exc # "none" THEN out
                                   ELSE IF verified THEN Returned(JNull)
                                   ELSE Raised("verify_connection"),
                                   IF exc # "none" THEN exc
                                   ELSE IF verified THEN "none" ELSE "OllamaError")
            /\ registry' = IF exc = "none" THEN RegisterTools(registry, out.ret.l)
                           ELSE registry
    /\ UNCHANGED <<client, session_id, tools_cache, request_id, conns, sent, last,
                   everConnected, lifecycle, quiet, goodSid, sessionList, reconnected,
                   inflight, app,
                   reg, chat, calc, conv, ws>>

WireNext ==
    \/ WireConnect
    \/ WireListTools
    \/ WireCallTool
    \/ WireInitialize

WireSpec == WireInit /\ [][WireNext]_vars

---------------------------------------------------------------------------
(* One ToolRegistry under arbitrary call sequences.                            *)

MaxDefs == 2

RECURSIVE DefLists(_)

\* the lists of at most n tool definitions
DefLists(n) ==
    IF n = 0 THEN {<< >>}
    ELSE DefLists(n - 1)
         \cup {Append(defs, tool) : defs \in {l \in DefLists(n - 1) : Len(l) = n - 1},
                                    tool \in ToolDefinitions}

RegOutcome(op, arg, before, out) ==
    [op |-> op, arg |-> arg, before |-> before, exc |-> out.cause, ret |-> out.ret]

RegInit ==
    /\ NewInstance
    /\ conns = << >>
    /\ sent = << >>
    /\ app = "direct"
    /\ inflight = NoHandlers
    /\ wire = NoWire
    /\ Unused

RegRegisterTool ==
    /\ \E tool \in ToolDefinitions :
        /\ registry' = RegisterTool(registry, tool)
        /\ reg' = RegOutcome("register_tool", tool, registry, Returned(JNull))
    /\ UNCHANGED <<clientVars, inflight, wire, app, chat, calc, conv, ws>>

RegRegisterTools ==
    /\ \E defs \in DefLists(MaxDefs) :
        /\ registry' = RegisterTools(registry, defs)
        /\ reg' = RegOutcome("register_tools", JList(defs), registry, Returned(JNull))
    /\ UNCHANGED <<clientVars, inflight, wire, app, chat, calc, conv, ws>>

RegClear ==
    /\ registry' = EmptyRegistry
    /\ reg' = RegOutcome("clear", JNull, registry, Returned(JNull))
    /\ UNCHANGED <<clientVars, inflight, wire, app, chat, calc, conv, ws>>

RegGetTool ==
    /\ \E name \in RegistryNames :
        reg' = RegOutcome("get_tool", JStr(name), registry, GetTool(registry, name))
    /\ UNCHANGED <<clientVars, inflight, wire, app, registry, chat, calc, conv, ws>>

RegToolExists ==
    /\ \E name \in RegistryNames :
        reg' = RegOutcome("tool_exists", JStr(name), registry,
                          Returned(ToolExists(registry, name)))
    /\ UNCHANGED <<clientVars, inflight, wire, app, registry, chat, calc, conv, ws>>

RegGetAllTools ==
    /\ reg' = RegOutcome("get_all_tools", JNull, registry, Returned(GetAllTools(registry)))
    /\ UNCHANGED <<clientVars, inflight, wire, app, registry, chat, calc, conv, ws>>

RegToOllamaFormat ==
    /\ reg' = RegOutcome("to_ollama_format", JNull, registry,
                         Returned(ToOllamaFormat(registry)))
    /\ UNCHANGED <<clientVars, inflight, wire, app, registry, chat, calc, conv, ws>>

RegNext ==
    \/ RegRegisterTool
    \/ RegRegisterTools
    \/ RegClear
    \/ RegGetTool
    \/ RegToolExists
    \/ RegGetAllTools
    \/ RegToOllamaFormat

RegSpec == RegInit /\ [][RegNext]_vars

---------------------------------------------------------------------------
(* ChatService._handle_tool_calls for one tool call that the LLM asked for,     *)
(* on a connected client: the arguments, call_tool on the response that        *)
(* arrives, and the second LLM call.                                           *)

\* int(text) and float(text) raised ValueError
ValueError == [t |-> "ValueError", s |-> "", l |-> << >>, o |-> << >>]

\* the LLM call raised
OllamaError == [t |-> "OllamaError", s |-> "", l |-> << >>, o |-> << >>]

(* The argument texts the model draws from, with int(text) and float(text) on   *)
(* them; every text that is not listed raises ValueError.                       *)

ArgumentTexts == {"10", "0", " 7 ", "-3", "5.5", "1e3", "inf", "ten", ""}

IntLiterals ==
    { [text |-> "10", value |-> JNum("10")],
      [text |-> "0", value |-> JNum("0")],
      [text |-> " 7 ", value |-> JNum("7")],
      [text |-> "-3", value |-> JNum("-3")] }

FloatLiterals ==
    { [text |-> "10", value |-> JFloat("10.0")],
      [text |-> "0", value |-> JFloat("0.0")],
      [text |-> " 7 ", value |-> JFloat("7.0")],
      [text |-> "-3", value |-> JFloat("-3.0")],
      [text |-> "5.5", value |-> JFloat("5.5")],
      [text |-> "1e3", value |-> JFloat("1000.0")],
      [text |-> "inf", value |-> JFloat("inf")] }

\* int(text)
PyInt(text) ==
    IF \E e \in IntLiterals : e.text = text
    THEN (CHOOSE e \in IntLiterals : e.text = text).value
    ELSE ValueError

\* float(text)
PyFloat(text) ==
    IF \E e \in FloatLiterals : e.text = text
    THEN (CHOOSE e \in FloatLiterals : e.text = text).value
    ELSE ValueError

\* _coerce_numeric_arguments: one value
CoerceValue_FloatFirst(value) ==
    IF value.t # "str" THEN value
    ELSE IF PyFloat(value.s) # ValueError THEN PyFloat(value.s)
    ELSE IF PyInt(value.s) # ValueError THEN PyInt(value.s)
    ELSE value

CoerceValue(value) ==
    IF value.t # "str" THEN value
    ELSE IF PyInt(value.s) # ValueError THEN PyInt(value.s)
    ELSE IF PyFloat(value.s) # ValueError THEN PyFloat(value.s)
    ELSE value

\* _coerce_numeric_arguments
CoerceNumericArguments(arguments) ==
    JObj([i \in DOMAIN arguments.o |-> KV(arguments.o[i].k, CoerceValue(arguments.o[i].v))])

\* what the LLM gives as arguments: a dict, or a text to be parsed
ParsedArguments(arguments) ==
    IF arguments.t = "str" THEN Decode(arguments.s) ELSE arguments

\* a chunk that is yielded: the whole text, or the text that is followed by the
\* message of the exception that was caught
Chunk(text) == [text |-> text, cause |-> "none"]

RaisedChunk(text, cause) == [text |-> text, cause |-> cause]

\* yield f"Error executing {tool_name}: {error_msg}"
ErrorChunk_Failed(tool_name, error_msg) ==
    RaisedChunk("Failed to execute tool: ", "ToolExecutionError")

ErrorChunk(tool_name, error_msg) ==
    Chunk("Error executing " \o tool_name \o ": " \o PyStr(error_msg))

\* the chunk for the answer of the second LLM call
FinalChunk(final_response) ==
    IF final_response = OllamaError
    THEN RaisedChunk("Unexpected error during tool execution: ", "OllamaError")
    ELSE IF HasKey(final_response, "message")
    THEN LET message == Item(final_response, "message")
             content == GetOr(message, "content", JStr(""))
         IN  IF Truthy(content) THEN Chunk(content.s)
             ELSE Chunk("Operation completed successfully.")
    ELSE Chunk("Operation completed successfully.")

ChatTools == {"add", "divide"}

ArgumentValues ==
    {JStr(text) : text \in ArgumentTexts} \cup {JNum("2"), JNull, JList(<<JStr("1")>>)}

\* the flat argument maps with the keys a and b, and arguments given as a text
ArgumentMaps ==
    {JObj(<< >>)}
        \cup {JObj(<<KV(k, v)>>) : k \in {"a", "b"}, v \in ArgumentValues}
        \cup {JObj(<<KV("a", v), KV("b", w)>>) : v \in ArgumentValues, w \in ArgumentValues}

ArgumentStrings == {JStr("{\"a\": \"10\", \"b\": \"0\"}"), JStr("4"), JStr("ten")}

LlmReplies ==
    { JObj(<<KV("message", JObj(<<KV("content", JStr("The answer is 4"))>>))>>),
      JObj(<<KV("message", JObj(<<KV("content", JStr(""))>>))>>),
      JObj(<<KV("message", JObj(<<KV("content", JNull)>>))>>),
      JObj(<<KV("message", JObj(<< >>))>>),
      JObj(<< >>),
      OllamaError }

ChatBodies == {BareBody(p) : p \in OneLinePayloads \cup BrokenPayloads}

\* the LLM's response asked for one tool call
Called(tool, arguments, body) ==
    [NoChat EXCEPT !.state = "called", !.tool = tool, !.arguments = arguments, !.body = body]

ChatInit ==
    /\ NewInstance
    /\ conns = << >>
    /\ sent = << >>
    /\ app = "direct"
    /\ inflight = NoHandlers
    /\ wire = NoWire
    /\ registry = EmptyRegistry
    /\ reg = NoReg
    /\ calc = NoCalc
    /\ conv = NoConv
    /\ ws = NoWs
    /\ \E tool \in ChatTools, arguments \in ArgumentMaps \cup ArgumentStrings,
          body \in ChatBodies :
        chat = Called(tool, arguments, body)

\* call_tool: self._client.post(url, json=request, ...) encodes the request before
\* anything is sent; the encoder (httpx 0.28: json.dumps with allow_nan=False)
\* raises ValueError on a float that is not finite
RequestEncodes(arguments) ==
    \A i \in DOMAIN arguments.o :
        ~(arguments.o[i].v.t = "float" /\ arguments.o[i].v.s \in {"inf", "-inf", "nan"})

\* _handle_tool_calls, one tool call up to the second LLM call: json.loads of
\* arguments given as text, _coerce_numeric_arguments, call_tool, and the test
\* for "error" in result; c is the call that was asked for
AfterCallTool(c) ==
    LET arguments == ParsedArguments(c.arguments)
        out == CallHandle(c.body)
    IN  IF arguments = JSONDecodeError
        THEN [c EXCEPT !.state = "finished",
                       !.chunks = <<Chunk("Error: Invalid tool arguments format")>>]
        ELSE IF ~IsDict(arguments)
        THEN [c EXCEPT !.state = "finished", !.exc = "AttributeError"]
        ELSE LET coerced == [c EXCEPT !.coerced = CoerceNumericArguments(arguments)]
                 result == out.ret
             IN  IF ~RequestEncodes(coerced.coerced)
                 \* except Exception in call_tool: ToolExecutionError, nothing was sent
                 THEN [coerced EXCEPT
                         !.state = "finished",
                         !.chunks = <<RaisedChunk("Failed to execute tool: ",
                                                  CallToolException("ValueError"))>>]
                 ELSE IF CallToolException(out.cause) # "none"
                 THEN [coerced EXCEPT
                         !.state = "finished",
                         !.chunks = <<RaisedChunk("Failed to execute tool: ",
                                                  CallToolException(out.cause))>>]
                 ELSE IF InRaises(result) \/ (In("error", result) /\ ~IsDict(result))
                 THEN [coerced EXCEPT
                         !.state = "finished", !.ret = result,
                         !.chunks = <<RaisedChunk("Unexpected error during tool execution: ",
                                                  "TypeError")>>]
                 ELSE IF In("error", result)
                 THEN [coerced EXCEPT
                         !.state = "finished", !.ret = result,
                         !.chunks = <<ErrorChunk(c.tool, Item(result, "error"))>>]
                 ELSE [coerced EXCEPT !.state = "answering", !.ret = result]

ChatCallTool ==
    /\ chat.state = "called"
    /\ chat' = AfterCallTool(chat)
    /\ UNCHANGED <<clientVars, inflight, wire, app, registry, reg, calc, conv, ws>>

\* _handle_tool_calls from final_response = await self._ollama.chat_with_tools(...) on
ChatFollowUp ==
    /\ chat.state = "answering"
    /\ \E final_response \in LlmReplies :
        chat' = [chat EXCEPT !.state = "finished", !.llm_calls = @ + 1,
                             !.chunks = <<FinalChunk(final_response)>>]
    /\ UNCHANGED <<clientVars, inflight, wire, app, registry, reg, calc, conv, ws>>

ChatNext ==
    \/ ChatCallTool
    \/ ChatFollowUp

ChatSpec == ChatInit /\ [][ChatNext]_vars

---------------------------------------------------------------------------
(* The calculator server: the tools add, subtract, multiply and divide, and    *)
(* Calculator.calculate beneath them. A number is held as an integer, a        *)
(* quotient as the fraction num/den in lowest terms with den > 0.              *)

MaxNum == 3

Numbers == {Num(n) : n \in (0 - MaxNum)..MaxNum}

Abs(n) == IF n < 0 THEN 0 - n ELSE n

RECURSIVE Gcd(_, _)

Gcd(m, n) == IF n = 0 THEN m ELSE Gcd(n, m % n)

\* a / b for b # 0
Quotient(a, b) ==
    LET g == Gcd(Abs(a), Abs(b))
        s == IF b < 0 THEN 0 - 1 ELSE 1
    IN  [num |-> (s * a) \div g, den |-> (s * b) \div g]

\* what a call of the calculator gives: a number, or an exception with its message
Value(num, den) == [exc |-> "none", msg |-> "", num |-> num, den |-> den]

Raise(exc, msg) == [exc |-> exc, msg |-> msg, num |-> 0, den |-> 1]

Operations == {"add", "subtract", "multiply", "divide"}

\* Division.execute; a / b with None raises TypeError
DivisionExecute_NoZeroCheck(a, b) ==
    IF ~a.given \/ ~b.given THEN Raise("TypeError", "")
    ELSE IF b.n = 0 THEN Raise("ZeroDivisionError", "division by zero")
    ELSE LET q == Quotient(a.n, b.n) IN Value(q.num, q.den)

DivisionExecute(a, b) ==
    IF b.given /\ b.n = 0 THEN Raise("ValueError", "Cannot divide by zero")
    ELSE IF ~a.given \/ ~b.given THEN Raise("TypeError", "")
    ELSE LET q == Quotient(a.n, b.n) IN Value(q.num, q.den)

\* Addition.execute, Subtraction.execute, Multiplication.execute, Division.execute
Execute(operation, a, b) ==
    IF operation = "divide" THEN DivisionExecute(a, b)
    ELSE IF ~a.given \/ ~b.given THEN Raise("TypeError", "")
    ELSE CASE operation = "add" -> Value(a.n + b.n, 1)
           [] operation = "subtract" -> Value(a.n - b.n, 1)
           [] operation = "multiply" -> Value(a.n * b.n, 1)

\* Calculator.calculate
Calculate(operation, a, b) ==
    IF operation \notin Operations
    THEN Raise("ValueError", "Unknown operation: " \o operation)
    ELSE Execute(operation, a, b)

\* the dict a tool returns, as the set of its items
Entry(key, num, den, msg) == [key |-> key, num |-> num, den |-> den, msg |-> msg]

ResultDict(value) == {Entry("result", value.num, value.den, "")}

ErrorDict(msg) == {Entry("error", 0, 1, msg)}

\* a tool's outcome: the dict it returned, or the exception that left it
ToolReturn(ret) == [exc |-> "none", ret |-> ret]

ToolRaise(exc) == [exc |-> exc, ret |-> {}]

Noun(name) ==
    CASE name = "add" -> "addition"
      [] name = "subtract" -> "subtraction"
      [] name = "multiply" -> "multiplication"
      [] name = "divide" -> "division"

\* if a is None or b is None
MissingArgument(a, b) == ~a.given \/ ~b.given

\* the tools add, subtract, multiply and divide of the server
Tool(name, a, b) ==
    LET out == Calculate(name, a, b) IN
    IF MissingArgument(a, b)
    THEN ToolReturn(ErrorDict("Both numbers are required for " \o Noun(name)))
    ELSE IF out.exc = "none" THEN ToolReturn(ResultDict(out))
    ELSE IF name = "divide" /\ out.exc = "ValueError" THEN ToolReturn(ErrorDict(out.msg))
    ELSE ToolRaise(out.exc)

CalcOutcome(op, operation, out, ret) ==
    [op |-> op, operation |-> operation, a |-> calc.a, b |-> calc.b,
     exc |-> out.exc, msg |-> out.msg, ret |-> ret]

CalcInit ==
    /\ NewInstance
    /\ conns = << >>
    /\ sent = << >>
    /\ app = "direct"
    /\ inflight = NoHandlers
    /\ wire = NoWire
    /\ registry = EmptyRegistry
    /\ reg = NoReg
    /\ chat = NoChat
    /\ conv = NoConv
    /\ ws = NoWs
    /\ \E a \in Numbers \cup {NoArg}, b \in Numbers \cup {NoArg} :
        calc = [NoCalc EXCEPT !.a = a, !.b = b]

\* a tools/call request for one of the tools is executed
CalcTool ==
    /\ calc.op = "none"
    /\ \E name \in Operations :
        LET out == Tool(name, calc.a, calc.b) IN
        calc' = CalcOutcome("tool", name, Raise(out.exc, ""), out.ret)
    /\ UNCHANGED <<clientVars, inflight, wire, app, registry, reg, chat, conv, ws>>

\* Calculator.calculate called on its own, as the tests do
CalcCalculate ==
    /\ calc.op = "none"
    /\ \E operation \in Operations \cup {"power"} :
        LET out == Calculate(operation, calc.a, calc.b) IN
        calc' = CalcOutcome("calculate", operation, out,
                            IF out.exc = "none" THEN {Entry("value", out.num, out.den, "")}
                            ELSE {})
    /\ UNCHANGED <<clientVars, inflight, wire, app, registry, reg, chat, conv, ws>>

CalcNext ==
    \/ CalcTool
    \/ CalcCalculate

CalcSpec == CalcInit /\ [][CalcNext]_vars

---------------------------------------------------------------------------
(* One ConversationManager under arbitrary call sequences. A message is its    *)
(* role and its content.                                                       *)

MaxHistory == 2

MaxAdds == 4

Message(role, content) == [role |-> role, content |-> content]

Contents == {"Hello", "Hi there"}

\* list[start:], a negative start counting from the end
SliceFrom(list, start) ==
    LET from == IF start >= 0 THEN start
                ELSE IF Len(list) + start < 0 THEN 0
                ELSE Len(list) + start
    IN  SubSeq(list, from + 1, Len(list))

\* add_message: what self._messages is afterwards
AddMessage_KeepOldest(messages, max_history, message) ==
    LET appended == Append(messages, message) IN
    IF Len(appended) > max_history THEN SubSeq(appended, 1, max_history) ELSE appended

AddMessage(messages, max_history, message) ==
    LET appended == Append(messages, message) IN
    IF Len(appended) > max_history THEN SliceFrom(appended, 0 - max_history)
    ELSE appended

\* get_history
GetHistory_NoZeroGuard(messages, limit) ==
    IF ~limit.given THEN messages ELSE SliceFrom(messages, 0 - limit.n)

GetHistory(messages, limit) ==
    IF ~limit.given THEN messages
    ELSE IF limit.n > 0 THEN SliceFrom(messages, 0 - limit.n)
    ELSE << >>

\* the limits get_history is called with
Limits == {NoArg} \cup {Num(n) : n \in (0 - 1)..(MaxHistory + 1)}

ConvInit ==
    /\ NewInstance
    /\ conns = << >>
    /\ sent = << >>
    /\ app = "direct"
    /\ inflight = NoHandlers
    /\ wire = NoWire
    /\ registry = EmptyRegistry
    /\ reg = NoReg
    /\ chat = NoChat
    /\ calc = NoCalc
    /\ ws = NoWs
    /\ \E max_history \in 0..MaxHistory :
        conv = [NoConv EXCEPT !.max_history = max_history]

ConvAddMessage ==
    /\ Len(conv.added) < MaxAdds
    /\ \E role \in {"user", "assistant"}, content \in Contents :
        conv' = [conv EXCEPT
                   !.op = "add_message",
                   !.limit = NoArg,
                   !.before = conv.messages,
                   !.messages = AddMessage(conv.messages, conv.max_history,
                                           Message(role, content)),
                   !.added = Append(@, Message(role, content)),
                   !.ret = << >>,
                   !.fresh = TRUE]
    /\ UNCHANGED <<clientVars, inflight, wire, app, registry, reg, chat, calc, ws>>

\* get_history: list.copy() and a slice are new lists
ConvGetHistory ==
    /\ \E limit \in Limits :
        conv' = [conv EXCEPT
                   !.op = "get_history",
                   !.limit = limit,
                   !.before = conv.messages,
                   !.ret = GetHistory(conv.messages, limit),
                   !.fresh = TRUE]
    /\ UNCHANGED <<clientVars, inflight, wire, app, registry, reg, chat, calc, ws>>

ConvClear ==
    /\ conv' = [conv EXCEPT
                  !.op = "clear",
                  !.limit = NoArg,
                  !.before = conv.messages,
                  !.messages = << >>,
                  !.added = << >>,
                  !.ret = << >>,
                  !.fresh = TRUE]
    /\ UNCHANGED <<clientVars, inflight, wire, app, registry, reg, chat, calc, ws>>

ConvNext ==
    \/ ConvAddMessage
    \/ ConvGetHistory
    \/ ConvClear

ConvSpec == ConvInit /\ [][ConvNext]_vars

---------------------------------------------------------------------------
(* One WebSocket chat: chat_endpoint reading messages and sending what         *)
(* ChatService.process_message and _handle_tool_calls yield. A step ends where *)
(* the coroutine awaits the LLM or the MCP server. In ws, frames are the texts  *)
(* sent since the last receive_text; before, answers, llm, executed and failed  *)
(* record what the turn did: the history when the message arrived, the LLM      *)
(* answers yielded, the history handed to each LLM call, the tool calls given   *)
(* to call_tool, and the place of the first tool call that failed. The pc is    *)
(* "accepted" until the first message has been read and "receive" whenever a   *)
(* message has been answered and the next one is awaited; turns counts the     *)
(* messages read.                                                              *)

MaxTurns == 1

MaxEarlier == 2

UserTexts == {"", "   ", "What is 2 + 2?"}

\* user_message.strip() of the texts above
Strip(text) ==
    CASE text = "" -> ""
      [] text = "   " -> ""
      [] text = "What is 2 + 2?" -> "What is 2 + 2?"

\* chat_endpoint: if not user_message.strip()
IsBlank_EmptyOnly(user_message) == user_message = ""

IsBlank(user_message) == Strip(user_message) = ""

\* one entry of the LLM's tool_calls
ToolCallOf(name, arguments) ==
    JObj(<<KV("function", JObj(<<KV("name", JStr(name)), KV("arguments", arguments)>>))>>)

DictArguments == JObj(<<KV("a", JStr("10")), KV("b", JNum("2"))>>)

RequestedCalls ==
    { ToolCallOf("add", DictArguments),
      ToolCallOf("add", JStr("ten")),
      ToolCallOf("power", DictArguments),
      JObj(<<KV("function", JObj(<<KV("arguments", DictArguments)>>))>>) }

RECURSIVE Batches(_)

\* the lists of n tool calls
Batches(n) ==
    IF n = 0 THEN {<< >>}
    ELSE {Append(batch, call) : batch \in Batches(n - 1), call \in RequestedCalls}

\* a response of the LLM that asks for tool calls
ToolCallsReply(tool_calls) ==
    JObj(<<KV("message", JObj(<<KV("content", JStr("")),
                                KV("tool_calls", JList(tool_calls))>>))>>)

FirstReplies ==
    LlmReplies
        \cup {JNull, ToolCallsReply(<< >>)}
        \cup UNION {{ToolCallsReply(batch) : batch \in Batches(n)} : n \in 1..MaxBatch}

\* the answers of the MCP server to a tools/call request
CallBodies ==
    { SseBody(<<"{\"result\": {\"content\": [{\"type\": \"text\", \"text\": \"{\\\"result\\\": 4}\"}]}}">>),
      SseBody(<<"{\"result\": {\"content\": [{\"type\": \"text\", \"text\": \"{\\\"error\\\": \\\"Cannot divide by zero\\\"}\"}]}}">>),
      SseBody(<<"{\"result\": {\"content\": [{\"text\": \"4\"}, {\"text\": \"5\"}]}}">>),
      SseBody(<<"{\"result\": {\"too">>) }

\* chat_endpoint: whether each await websocket.send_text(...) of a turn returns
\* (TRUE) or raises: of a chunk, of the "[DONE]" after the last chunk, of the error
\* frame, and of the "[DONE]" after the error frame. A send_text that is not
\* reached has no outcome to draw (TRUE): "[DONE]" after a chunk that raised, the
\* error frame when nothing raised, the last "[DONE]" without the error frame
SendOutcomes ==
    {send \in [chunk : BOOLEAN, done : BOOLEAN, error : BOOLEAN, last : BOOLEAN] :
        /\ ~send.chunk => send.done
        /\ (send.chunk /\ send.done) => send.error
        /\ ((send.chunk /\ send.done) \/ ~send.error) => send.last}

Done == Chunk("[DONE]")

\* chat_endpoint: send_text(f"Error: {error_msg}"), error_msg = f"Error processing message: {e}"
EndpointError == RaisedChunk("Error: Error processing message: ", "send_text")

\* chat_endpoint, except Exception as e (a send_text inside the try raised): the
\* error frame and "[DONE]" are sent; when one of them raises, the outer except
\* clause closes the connection and the loop is left
Recover(w, send) ==
    IF ~send.error THEN [w EXCEPT !.pc = "closed"]
    ELSE IF ~send.last THEN [w EXCEPT !.pc = "closed", !.frames = Append(@, EndpointError)]
    ELSE [w EXCEPT !.pc = "receive", !.frames = @ \o <<EndpointError, Done>>]

\* async for chunk in process_message(...): send_text(chunk), where the generator
\* goes on after the chunk (more) or ends, and then send_text("[DONE]")
Emit(w, chunk, more, send) ==
    IF ~send.chunk THEN Recover(w, send)
    ELSE LET sent_chunk == [w EXCEPT !.frames = Append(@, chunk)] IN
         IF more THEN sent_chunk
         ELSE IF send.done THEN [sent_chunk EXCEPT !.pc = "receive", !.frames = Append(@, Done)]
         ELSE Recover(sent_chunk, send)

\* self._conversation.add_message(message)
Stored(c, message) ==
    [c EXCEPT !.op = "add_message",
              !.limit = NoArg,
              !.before = c.messages,
              !.messages = AddMessage(c.messages, c.max_history, message),
              !.added = Append(@, message),
              !.ret = << >>,
              !.fresh = TRUE]

\* tool_call.get("function", {}), function.get("name", ""), function.get("arguments", {})
FunctionOf(tool_call) == GetOr(tool_call, "function", JObj(<< >>))

ToolNameOf(tool_call) == GetOr(FunctionOf(tool_call), "name", JStr("")).s

ArgumentsOf(tool_call) == GetOr(FunctionOf(tool_call), "arguments", JObj(<< >>))

\* final_response["message"].get("content", "") where it is stored and yielded
FinalContent(final_response) ==
    IF final_response = OllamaError \/ ~HasKey(final_response, "message") THEN JStr("")
    ELSE GetOr(Item(final_response, "message"), "content", JStr(""))

\* for tool_call in tool_calls: on to the next tool call
NextCall(w) == [w EXCEPT !.pc = "tool", !.i = @ + 1]

\* get_chat_service() hands every connection the same ChatService: the history at
\* accept is what add_message left of the messages of earlier connections
EarlierMessages ==
    [k \in 1..MaxEarlier |->
        IF k % 2 = 1 THEN Message("user", "Hello") ELSE Message("assistant", "Hi there")]

RECURSIVE AddMessages(_, _, _)

\* add_message for each message of a list, in order
AddMessages(messages, max_history, list) ==
    IF list = << >> THEN messages
    ELSE AddMessages(AddMessage(messages, max_history, Head(list)), max_history, Tail(list))

EarlierHistories(max_history) ==
    {AddMessages(<< >>, max_history, SubSeq(EarlierMessages, 1, n)) : n \in 0..MaxEarlier}

\* a connection is accepted by the application that initialize() has started: the
\* registry holds the entries that list_tools made of the tools the server listed
EndpointInit ==
    /\ NewInstance
    /\ conns = << >>
    /\ sent = << >>
    /\ app = "direct"
    /\ inflight = NoHandlers
    /\ wire = NoWire
    /\ registry = RegisterTools(EmptyRegistry, ToolsOf(JList(<<AddTool, DivideTool>>)).ret.l)
    /\ reg = NoReg
    /\ chat = NoChat
    /\ calc = NoCalc
    /\ \E max_history \in 0..MaxHistory :
        \E earlier \in EarlierHistories(max_history) :
            /\ conv = [NoConv EXCEPT !.max_history = max_history, !.messages = earlier]
            /\ ws = [NoWs EXCEPT !.pc = "accepted", !.before = earlier]

\* chat_endpoint: user_message = await websocket.receive_text(); a blank message is
\* answered at once; else process_message runs up to its first await: the user's
\* message is added and the history is handed to chat_with_tools
EndpointReceive ==
    /\ ws.pc \in {"accepted", "receive"}
    /\ ws.turns < MaxTurns
    /\ \E user_message \in UserTexts :
        LET fresh == [NoWs EXCEPT !.received = user_message, !.before = conv.messages,
                                  !.turns = ws.turns + 1]
        IN
        IF IsBlank(user_message)
        THEN \* send_text("Please provide a message.") is outside the inner try: when
             \* it raises, the outer except clause closes the connection
             /\ \E sent_text \in BOOLEAN :
                   ws' = IF sent_text
                         THEN [fresh EXCEPT !.pc = "receive",
                                            !.frames = <<Chunk("Please provide a message.")>>]
                         ELSE [fresh EXCEPT !.pc = "closed"]
             /\ UNCHANGED conv
        ELSE /\ conv' = Stored(conv, Message("user", user_message))
             /\ ws' = [fresh EXCEPT !.pc = "llm", !.llm = <<conv'.messages>>]
    /\ chat' = NoChat
    /\ UNCHANGED <<clientVars, inflight, wire, app, registry, reg, calc>>

\* receive_text raises WebSocketDisconnect: the loop is left
EndpointDisconnect ==
    /\ ws.pc \in {"accepted", "receive"}
    /\ ws' = [ws EXCEPT !.pc = "closed"]
    /\ UNCHANGED <<clientVars, inflight, wire, app, registry, reg, chat, calc, conv>>

\* process_message from response = await self._ollama.chat_with_tools(...) on, up
\* to the first tool call
ProcessMessage ==
    /\ ws.pc = "llm"
    /\ \E response \in FirstReplies, send \in SendOutcomes :
        IF response = OllamaError
        THEN /\ ws' = Emit(ws, RaisedChunk("Error processing message: ", "OllamaError"),
                           FALSE, send)
             /\ UNCHANGED conv
        ELSE IF ~Truthy(response) \/ ~HasKey(response, "message")
        THEN /\ ws' = Emit(ws, Chunk("Error: Invalid response from LLM"), FALSE, send)
             /\ UNCHANGED conv
        ELSE LET response_message == Item(response, "message") IN
             IF HasKey(response_message, "tool_calls")
                    /\ Truthy(Item(response_message, "tool_calls"))
             THEN /\ ws' = [ws EXCEPT !.pc = "tool", !.i = 1,
                                      !.tool_calls = Item(response_message, "tool_calls").l]
                  /\ UNCHANGED conv
             ELSE LET content == GetOr(response_message, "content", JStr("")) IN
                  IF Truthy(content)
                  THEN /\ conv' = Stored(conv, Message("assistant", content.s))
                       /\ ws' = Emit([ws EXCEPT !.answers = Append(@, content.s)],
                                     Chunk(content.s), FALSE, send)
                  ELSE /\ ws' = Emit(ws, Chunk("I'm not sure how to respond to that."),
                                     FALSE, send)
                       /\ UNCHANGED conv
    /\ UNCHANGED <<clientVars, inflight, wire, app, registry, reg, chat, calc>>

\* _handle_tool_calls: the tool call at i, from tool_call.get("function", {}) to
\* the outcome of result = await self._mcp.call_tool(...), which chat holds
HandleToolCall ==
    /\ ws.pc = "tool"
    /\ \E body \in CallBodies :
        chat' = AfterCallTool(Called(ToolNameOf(ws.tool_calls[ws.i]),
                                     ArgumentsOf(ws.tool_calls[ws.i]), body))
    /\ ws' = [ws EXCEPT !.pc = "called"]
    /\ UNCHANGED <<clientVars, inflight, wire, app, registry, reg, calc, conv>>

\* _handle_tool_calls: what follows the outcome of the tool call at i. The invalid
\* arguments text and the error result end the generator (return); an exception
\* of call_tool or of the test on its result is caught inside the loop, which
\* goes on; an exception of _coerce_numeric_arguments leaves the loop and is
\* caught by process_message; a result is handed to the second LLM call.
HandleToolResult ==
    /\ ws.pc = "called"
    /\ \E send \in SendOutcomes :
        LET called == chat.coerced # NoReturn
            w == IF called
                 THEN [ws EXCEPT !.executed = Append(@, [i |-> ws.i, tool |-> chat.tool])]
                 ELSE ws
            fails == [w EXCEPT !.failed = IF @ = 0 THEN ws.i ELSE @]
            more == ws.i < Len(ws.tool_calls)
        IN  IF chat.state = "answering"
            THEN ws' = [w EXCEPT !.pc = "followup", !.llm = Append(@, conv.messages)]
            ELSE IF chat.exc = "AttributeError"
            THEN ws' = Emit(fails, RaisedChunk("Error processing message: ",
                                               "AttributeError"), FALSE, send)
            ELSE IF chat.chunks[1].cause = "none"
            THEN ws' = Emit(fails, chat.chunks[1], FALSE, send)
            ELSE ws' = IF send.chunk /\ more
                       THEN NextCall(Emit(fails, chat.chunks[1], more, send))
                       ELSE Emit(fails, chat.chunks[1], more, send)
    /\ UNCHANGED <<clientVars, inflight, wire, app, registry, reg, chat, calc, conv>>

\* _handle_tool_calls from final_response = await self._ollama.chat_with_tools(...)
\* on: a non-empty content is added to the conversation and yielded; then the loop
\* goes on with the next tool call
HandleFollowUp ==
    /\ ws.pc = "followup"
    /\ \E final_response \in LlmReplies, send \in SendOutcomes :
        LET content == FinalContent(final_response)
            more == ws.i < Len(ws.tool_calls)
            w == IF Truthy(content) THEN [ws EXCEPT !.answers = Append(@, content.s)]
                 ELSE ws
        IN  /\ conv' = IF Truthy(content)
                       THEN Stored(conv, Message("assistant", content.s))
                       ELSE conv
            /\ chat' = [chat EXCEPT !.state = "finished", !.llm_calls = @ + 1,
                                    !.chunks = <<FinalChunk(final_response)>>]
            /\ ws' = IF send.chunk /\ more
                     THEN NextCall(Emit(w, FinalChunk(final_response), more, send))
                     ELSE Emit(w, FinalChunk(final_response), more, send)
    /\ UNCHANGED <<clientVars, inflight, wire, app, registry, reg, calc>>

EndpointNext ==
    \/ EndpointReceive
    \/ EndpointDisconnect
    \/ ProcessMessage
    \/ HandleToolCall
    \/ HandleToolResult
    \/ HandleFollowUp

EndpointSpec == EndpointInit /\ [][EndpointNext]_vars

---------------------------------------------------------------------------
(* Properties *)

IdMsgs == {i \in DOMAIN sent : sent[i].id # 0}
ToolMsgs == {i \in DOMAIN sent : sent[i].method \in {"tools/list", "tools/call"}}
LastMsg == sent[Len(sent)]

\* C1: every request carries an id strictly greater than the id of every request
\* sent before it, whatever the calls and however they ended; the
\* notifications/initialized message carries no id and takes none from the counter.
C1_IdsStrictlyIncrease ==
    /\ \A i, j \in IdMsgs : i < j => sent[i].id < sent[j].id
    /\ \A i \in DOMAIN sent : (sent[i].method = "notifications/initialized") <=> (sent[i].id = 0)
    /\ \A i \in IdMsgs : sent[i].id <= request_id
    /\ last.op = "connect" /\ last.nsent = 2 =>
          /\ LastMsg.method = "notifications/initialized"
          /\ sent[Len(sent) - 1].id = request_id
          /\ last.nids = 1

C1_Witness ==
    /\ \E i, j, k \in DOMAIN sent :
          /\ i < j /\ j < k
          /\ sent[i].method = "initialize"
          /\ sent[j].method = "notifications/initialized"
          /\ sent[k].method = "tools/call"
          /\ sent[i].conn # sent[k].conn
    /\ last.op = "call_tool"
    /\ last.exc = "ToolExecutionError"

\* C2: within every session the request ids start at 1 and go on 2, 3, ...: the
\* initialize request of every connect carries id 1, also after an earlier
\* disconnect, and the n-th request with an id of a session carries id n.
C2_EverySessionStartsAtOne ==
    \A i \in IdMsgs :
        sent[i].id = Cardinality({k \in IdMsgs : k <= i /\ sent[k].conn = sent[i].conn})

\* C3: in the application no tools/list or tools/call request of a session is sent
\* before the notifications/initialized message of that session's connect.
C3_HandshakeBeforeTools ==
    \A k \in ToolMsgs :
        \E j \in DOMAIN sent :
            /\ j < k
            /\ sent[j].method = "notifications/initialized"
            /\ sent[j].conn = sent[k].conn
            /\ sent[j].sid = sent[k].sid

C3_Witness ==
    /\ app = "serving"
    /\ last.op = "call_tool"
    /\ last.nsent = 1
    /\ LastMsg.method = "tools/call"
    /\ LastMsg.conn > 1
    /\ \E i \in DOMAIN sent : sent[i].method = "tools/list" /\ sent[i].conn = LastMsg.conn

\* C4: the initialize request carries no mcp-session-id, and every
\* notifications/initialized, tools/list and tools/call message carries the id
\* returned by the most recent successful initialize of the client.
C4_SessionIdOfLastSuccessfulInitialize ==
    /\ \A i \in DOMAIN sent : sent[i].method = "initialize" => sent[i].sid = None
    /\ (last.nsent > 0 /\ LastMsg.method # "initialize")
          => LastMsg.sid # None /\ LastMsg.sid = goodSid

\* C5: connect raises MCPConnectionError when the initialize response has no
\* session id or its body is an error envelope, and sends no
\* notifications/initialized message in either case.
C5_ConnectFailsWithoutSessionOrOnError ==
    (last.op = "connect" /\ last.resp.status = "ok"
       /\ (last.resp.sid = None \/ last.resp.kind = "error"))
    => /\ last.exc = "MCPConnectionError"
       /\ last.nsent = 1
       /\ LastMsg.method = "initialize"

C5_Witness ==
    /\ last.op = "connect"
    /\ last.resp.status = "ok"
    /\ last.resp.sid \in SessionIds
    /\ last.resp.kind = "error"
    /\ last.exc = "MCPConnectionError"

\* C6: when initialize succeeded, connect returns normally and the session is
\* established even if sending notifications/initialized failed.
C6_NotificationBestEffort ==
    (last.op = "connect" /\ InitializeFailure(last.resp) = "none")
    => /\ last.exc = "none"
       /\ ~NotConnected(client, session_id)

\* C7: disconnect never raises, and after a disconnect that came second in a row
\* or before any connect the client is not connected: a following call_tool
\* raises MCPConnectionError (not connected).
C7_DisconnectIdempotent ==
    /\ last.op = "disconnect" => last.exc = "none"
    /\ (quiet /\ last.op = "disconnect") => NotConnected(client, session_id)
    /\ (quiet /\ last.op = "call_tool")
          => last.exc = "MCPConnectionError" /\ last.why = "not_connected" /\ last.nsent = 0

C7_Witness ==
    /\ quiet
    /\ everConnected
    /\ goodSid # None
    /\ last.op = "call_tool"
    /\ last.exc = "MCPConnectionError"

\* C8: disconnect never raises, also when closing the connection raises, and
\* after it returned the session id is absent, so that list_tools and call_tool
\* raise MCPConnectionError.
C8_DisconnectDiscardsSession ==
    /\ last.op = "disconnect" => last.exc = "none" /\ session_id = None
    /\ (lifecycle = "disconnect" /\ last.op \in {"list_tools", "call_tool"})
          => last.exc = "MCPConnectionError"

\* C9: after disconnect returned, no AsyncClient opened by the instance is open.
C9_NoConnectionLeak ==
    last.op = "disconnect" => \A c \in DOMAIN conns : conns[c] = "closed"

\* C10: list_tools and call_tool invoked before any connect or after disconnect
\* raise MCPConnectionError, send no request and take no request id.
C10_RequiresActiveSession ==
    (last.op \in {"list_tools", "call_tool"} /\ lifecycle \in {"new", "disconnect"})
    => /\ last.exc = "MCPConnectionError"
       /\ last.nsent = 0
       /\ last.nids = 0

\* C11: once a list_tools call has succeeded in a session, every later list_tools
\* call of that session returns the same list, sends nothing and takes no request
\* id, also when that list is empty; a list_tools call that failed leaves the
\* cache as it was.
C11_ListCachedForSession ==
    [][ last'.op = "list_tools" =>
          /\ sessionList # None =>
                /\ last'.exc = "none"
                /\ last'.ret = sessionList
                /\ sent' = sent
                /\ request_id' = request_id
          /\ last'.exc # "none" => tools_cache' = tools_cache ]_vars

C11_Witness ==
    /\ last.op = "list_tools"
    /\ last.why = "cached"
    /\ sessionList = << >>
    /\ last.ret = << >>
    /\ \E i \in DOMAIN sent : sent[i].method = "tools/list" /\ sent[i].conn = client
    /\ \E i \in DOMAIN sent :
          /\ sent[i].method = "tools/list" /\ sent[i].conn = client
          /\ \E j \in DOMAIN sent : j < i /\ sent[j].method = "tools/list" /\ sent[j].conn = client

\* C12: after a disconnect followed by a successful connect, a list_tools call that
\* returns has sent a tools/list request to the new session (the list cached
\* during the previous session is not returned).
C12_CacheEndsWithSession ==
    (reconnected /\ last.op = "list_tools" /\ last.exc = "none")
    => \E i \in DOMAIN sent : sent[i].method = "tools/list" /\ sent[i].conn = client

\* C13: a transport-level failure (timeout, refused connection, non-2xx status)
\* leaves connect and list_tools as MCPConnectionError and call_tool as
\* ToolExecutionError, and no other exception type leaves the three operations.
C13_TransportFailureTypes ==
    /\ last.exc \in {"none", "MCPConnectionError", "ToolExecutionError"}
    /\ last.why \in {"http_error", "transport_error"} =>
          /\ last.op \in {"connect", "list_tools"} => last.exc = "MCPConnectionError"
          /\ last.op = "call_tool" => last.exc = "ToolExecutionError"
    /\ last.op \in {"connect", "list_tools"} => last.exc # "ToolExecutionError"

C13_Witness ==
    /\ last.op = "call_tool"
    /\ last.why = "transport_error"
    /\ last.exc = "ToolExecutionError"
    /\ \E i \in DOMAIN sent : sent[i].method = "tools/list" /\ sent[i].conn = client

\* C14: in the running application at most one tools/call request is outstanding
\* on the session at any time, however many WebSocket chats are open.
C14_OneRequestInFlight ==
    Cardinality({h \in DOMAIN inflight : inflight[h].pc = "calling"}) <= 1

\* the result payload of the envelope that a tools/call response parsed to
ResultPayload == GetOr(wire.parsed, "result", JObj(<< >>))

\* a tools/call response was handled whose envelope is an object with a result object
\* and no error
CallWithResult ==
    /\ wire.op = "call_tool"
    /\ IsDict(wire.parsed)
    /\ ~HasKey(wire.parsed, "error")
    /\ HasKey(wire.parsed, "result")
    /\ IsDict(ResultPayload)

\* the data lines of a response body
DataLinesOf(body) == {i \in DOMAIN body : body[i].pre = DataPrefix}

\* the two forms of a response body: a bare JSON object, or an SSE body whose
\* data lines each carry a JSON payload
WellFormed(body) ==
    IF DataLinesOf(body) = {}
    THEN IsDict(Decode(Join(body)))
    ELSE \A i \in DataLinesOf(body) : Decode(body[i].text) # JSONDecodeError

\* C15: a response body that is neither a bare JSON object nor an SSE body with
\* JSON-carrying data lines makes connect, list_tools and call_tool all fail with
\* the connection error; none of them returns a value.
C15_MalformedIsConnectionError ==
    (wire.op \in {"connect", "list_tools", "call_tool"} /\ ~WellFormed(wire.body))
    => (wire.exc = "MCPConnectionError" /\ wire.ret = NoReturn)

\* C16: an envelope that is an object with neither a result nor an error field makes
\* list_tools and call_tool fail; they return no empty tool list and no empty result.
C16_EnvelopeWithoutResultOrErrorRejected ==
    (/\ wire.op \in {"list_tools", "call_tool"}
     /\ IsDict(wire.parsed)
     /\ ~HasKey(wire.parsed, "result")
     /\ ~HasKey(wire.parsed, "error"))
    => (wire.exc # "none" /\ wire.ret = NoReturn)

\* C17: a tools/call response with a top-level error never makes call_tool raise:
\* it returns {error: message}, the message being the error's message field when the
\* error is an object that has one and the error in string form otherwise.
C17_ErrorEnvelopeNeverRaises ==
    (wire.op = "call_tool" /\ IsDict(wire.parsed) /\ HasKey(wire.parsed, "error"))
    => LET error == Item(wire.parsed, "error") IN
       /\ wire.exc = "none"
       /\ wire.ret = JObj(<<KV("error", IF IsDict(error) /\ HasKey(error, "message")
                                        THEN Item(error, "message")
                                        ELSE JStr(PyStr(error)))>>)

\* the tools/call response handled carries a non-empty content list whose first
\* element is an object with a text field that holds a string
FirstTextCase ==
    /\ CallWithResult
    /\ HasKey(ResultPayload, "content")
    /\ Item(ResultPayload, "content").t = "list"
    /\ Item(ResultPayload, "content").l # << >>
    /\ IsDict(Item(ResultPayload, "content").l[1])
    /\ HasKey(Item(ResultPayload, "content").l[1], "text")
    /\ Item(Item(ResultPayload, "content").l[1], "text").t = "str"

FirstText == Item(Item(ResultPayload, "content").l[1], "text").s

\* C18: when the content list of a tools/call result is non-empty and its first
\* element carries a text, call_tool returns the JSON value of that text when the
\* text is JSON and {result: text} when it is not, whatever the later elements are.
C18_FirstTextDecodedOrWrapped ==
    FirstTextCase =>
        /\ wire.exc = "none"
        /\ \A e \in JsonLoads : e.text = FirstText => wire.ret = e.value
        /\ (\A e \in JsonLoads : e.text # FirstText) => wire.ret = Wrapped(JStr(FirstText))

C18_Witness ==
    /\ FirstTextCase
    /\ Len(Item(ResultPayload, "content").l) > 1
    /\ FirstText = "4"
    /\ wire.ret = JNum("4")

\* C19 (as stated): when the content of a tools/call result is not a list, call_tool
\* returns the content in string form; when the result has no content field,
\* call_tool returns the result object unchanged.
C19_NonListContentAsString ==
    CallWithResult =>
        /\ (HasKey(ResultPayload, "content") /\ Item(ResultPayload, "content").t # "list")
           => (wire.exc = "none" /\ wire.ret = JStr(PyStr(Item(ResultPayload, "content"))))
        /\ ~HasKey(ResultPayload, "content")
           => (wire.exc = "none" /\ wire.ret = ResultPayload)

\* C19 (amended): when the content of a tools/call result is not a list, call_tool
\* returns {result: s}, s being the content in string form; when the result has no
\* content field, call_tool returns the result object unchanged.
C19_NonListContentWrappedString ==
    CallWithResult =>
        /\ (HasKey(ResultPayload, "content") /\ Item(ResultPayload, "content").t # "list")
           => /\ wire.exc = "none"
              /\ wire.ret = JObj(<<KV("result", JStr(PyStr(Item(ResultPayload, "content"))))>>)
        /\ ~HasKey(ResultPayload, "content")
           => (wire.exc = "none" /\ wire.ret = ResultPayload)

C19_Witness ==
    /\ CallWithResult
    /\ HasKey(ResultPayload, "content")
    /\ Item(ResultPayload, "content") = JObj(<<KV("text", JStr("4"))>>)
    /\ wire.ret = JObj(<<KV("result", JStr("{'text': '4'}"))>>)

\* the body handled has no line that starts with "data: "
NoDataLine == \A i \in DOMAIN wire.body : wire.body[i].pre # DataPrefix

\* C20 (as stated): for every JSON payload P, the body "event: message", "data: " P,
\* blank line parses to what the bare body P parses to; a body without a data line
\* is parsed as a whole.
C20_FramingTransparent ==
    wire.op # "none" =>
        /\ \A p \in OneLinePayloads \cup PrettyPayloads :
              wire.body = SseBody(p) => wire.parsed = ParseSse(BareBody(p))
        /\ NoDataLine => wire.parsed = Decode(Join(wire.body))

\* C20 (amended): for every JSON payload P written on one line, the body
\* "event: message", "data: " P, blank line parses to the envelope that the bare
\* body P parses to; a body without a data line is parsed as a whole.
C20_OneLineFramingTransparent ==
    wire.op # "none" =>
        /\ \A p \in OneLinePayloads :
              wire.body = SseBody(p) =>
                  /\ wire.parsed = ParseSse(BareBody(p))
                  /\ wire.parsed = Decode(p[1])
                  /\ wire.parsed # JSONDecodeError
        /\ NoDataLine => wire.parsed = Decode(Join(wire.body))

C20_Witness ==
    /\ wire.op = "list_tools"
    /\ wire.body = SseBody(<<"{\"result\": {\"tools\": []}}">>)
    /\ wire.parsed = JObj(<<KV("result", JObj(<<KV("tools", JList(<< >>))>>))>>)
    /\ wire.ret = JList(<< >>)

\* the name of a tool definition, and whether it has one that is not empty
NameOf(tool) == GetOr(tool, "name", JNull)

Named(tool) == NameOf(tool).t = "str" /\ NameOf(tool).s # ""

\* the names a registry holds
HeldNames(tools) == {tools.o[i].k : i \in DOMAIN tools.o}

\* the definitions that the last registry call was given to register
GivenDefs ==
    IF reg.op = "register_tool" THEN <<reg.arg>>
    ELSE IF reg.op = "register_tools" THEN reg.arg.l
    ELSE << >>

\* the places in GivenDefs of the definitions named n
GivenAs(n) == {i \in DOMAIN GivenDefs : Named(GivenDefs[i]) /\ NameOf(GivenDefs[i]).s = n}

GivenNames == {NameOf(GivenDefs[i]).s : i \in {j \in DOMAIN GivenDefs : Named(GivenDefs[j])}}

\* C21: after any sequence of register_tool, register_tools and clear, no name is
\* held twice; a registration makes each given name held with the definition given
\* last under it, leaves every other name as it was and grows the registry by the
\* names that were not held; clear leaves no tool; tool_exists answers whether the
\* name is held; get_tool returns the held definition and raises ToolNotFoundError
\* for a name that is not held.
C21_RegistryIsLastWriteWinsMap ==
    /\ \A i, j \in DOMAIN registry.o : registry.o[i].k = registry.o[j].k => i = j
    /\ reg.op \in {"register_tool", "register_tools"} =>
          /\ \A n \in RegistryNames \cup HeldNames(registry) \cup HeldNames(reg.before) :
                IF GivenAs(n) # {}
                THEN /\ HasKey(registry, n)
                     /\ Item(registry, n) =
                            GivenDefs[CHOOSE i \in GivenAs(n) : \A j \in GivenAs(n) : j <= i]
                ELSE /\ HasKey(registry, n) <=> HasKey(reg.before, n)
                     /\ HasKey(reg.before, n) => Item(registry, n) = Item(reg.before, n)
          /\ Len(registry.o) =
                Len(reg.before.o) + Cardinality(GivenNames \ HeldNames(reg.before))
    /\ reg.op = "clear" => Len(registry.o) = 0
    /\ reg.op = "tool_exists" =>
          /\ registry = reg.before
          /\ reg.ret = JBool(reg.arg.s \in HeldNames(registry))
    /\ reg.op = "get_tool" =>
          /\ registry = reg.before
          /\ IF reg.arg.s \in HeldNames(registry)
             THEN reg.exc = "none" /\ reg.ret = Item(registry, reg.arg.s)
             ELSE reg.exc = "ToolNotFoundError" /\ reg.ret = NoReturn

C21_Witness ==
    /\ reg.op = "register_tool"
    /\ reg.arg = AddToolPlain
    /\ HasKey(reg.before, "divide")
    /\ HasKey(reg.before, "add")
    /\ Item(reg.before, "add") = AddTool
    /\ Item(registry, "add") = AddToolPlain
    /\ Len(registry.o) = Len(reg.before.o)

\* C22: after register_tools(defs), get_all_tools() yields one definition per name,
\* and its names are the names held before together with the non-empty names of
\* defs; registering a definition whose name is empty or missing changes nothing.
C22_RegisterAllUnitesNames ==
    /\ reg.op = "register_tools" =>
          LET all == GetAllTools(registry).l IN
          /\ \A i \in DOMAIN all : Named(all[i])
          /\ {NameOf(all[i]).s : i \in DOMAIN all} = HeldNames(reg.before) \cup GivenNames
          /\ \A i, j \in DOMAIN all : NameOf(all[i]) = NameOf(all[j]) => i = j
    /\ (reg.op \in {"register_tool", "register_tools"} /\ GivenNames = {}) =>
          registry = reg.before

C22_Witness ==
    /\ reg.op = "register_tools"
    /\ reg.arg = JList(<<NamelessTool, DivideTool>>)
    /\ HeldNames(reg.before) = {"add"}
    /\ HeldNames(registry) = {"add", "divide"}
    /\ Len(GetAllTools(registry).l) = Len(reg.before.o) + 1

\* what to_ollama_format emitted for the tool at place i of the registry
Emitted(i) == reg.ret.l[i]

EmittedParameters(i) == Item(Item(Emitted(i), "function"), "parameters")

\* the tool at place i of the registry has an input schema with content
HasSchema(i) ==
    /\ HasKey(registry.o[i].v, "inputSchema")
    /\ Item(registry.o[i].v, "inputSchema").t = "dict"
    /\ Item(registry.o[i].v, "inputSchema").o # << >>

SchemaOf(i) == Item(registry.o[i].v, "inputSchema")

\* C24: for a tool whose inputSchema is empty or absent,
\* to_ollama_format yields parameters = {type: "object", properties: {}, required: []}.
C24_EmptySchemaGivesDefaultParameters ==
    reg.op = "to_ollama_format" =>
        \A i \in DOMAIN registry.o :
            ~HasSchema(i) =>
                EmittedParameters(i) =
                    JObj(<<KV("type", JStr("object")), KV("properties", JObj(<< >>)),
                           KV("required", JList(<< >>))>>)

C24_Witness ==
    /\ reg.op = "to_ollama_format"
    /\ \E i \in DOMAIN registry.o :
          /\ registry.o[i].v = AddToolPlain
          /\ Item(EmittedParameters(i), "properties") = JObj(<< >>)
    /\ \E i \in DOMAIN registry.o :
          /\ registry.o[i].v = EchoTool
          /\ Item(EmittedParameters(i), "required") = JList(<< >>)

\* C25: to_ollama_format emits the properties of every tool's inputSchema one for
\* one, in order: a property without description gets the description
\* "The <name> parameter" and keeps everything else, a property with a description
\* is emitted as it is.
C25_PropertiesDescribed ==
    reg.op = "to_ollama_format" =>
        \A i \in DOMAIN registry.o :
            HasSchema(i) =>
                LET given == GetOr(SchemaOf(i), "properties", JObj(<< >>)).o
                    emitted == Item(EmittedParameters(i), "properties").o
                IN  /\ Len(emitted) = Len(given)
                    /\ \A j \in DOMAIN given :
                          /\ emitted[j].k = given[j].k
                          /\ emitted[j].v =
                                IF HasKey(given[j].v, "description") THEN given[j].v
                                ELSE JObj(given[j].v.o \o
                                          <<KV("description",
                                               JStr("The " \o given[j].k \o " parameter"))>>)

C25_Witness ==
    /\ reg.op = "to_ollama_format"
    /\ \E i \in DOMAIN registry.o :
          /\ registry.o[i].v = AddTool
          /\ Item(Item(EmittedParameters(i), "properties"), "a") =
                JObj(<<KV("type", JStr("number")), KV("description", JStr("First number"))>>)
          /\ Item(Item(EmittedParameters(i), "properties"), "b") =
                JObj(<<KV("type", JStr("number")), KV("description", JStr("The b parameter"))>>)

\* C26: to_ollama_format emits one entry per registered tool, in order, of the form
\* {type: "function", function: {name, description, parameters}} with the tool's
\* name, the tool's description ("" when it has none), parameters.type = "object"
\* and required as the inputSchema gives it, the empty list when it gives none.
C26_OneFunctionEntryPerTool ==
    reg.op = "to_ollama_format" =>
        /\ Len(reg.ret.l) = Len(registry.o)
        /\ \A i \in DOMAIN registry.o :
              LET tool == registry.o[i].v
                  function == Item(Emitted(i), "function")
              IN  /\ [j \in DOMAIN Emitted(i).o |-> Emitted(i).o[j].k] = <<"type", "function">>
                  /\ Item(Emitted(i), "type") = JStr("function")
                  /\ [j \in DOMAIN function.o |-> function.o[j].k] =
                        <<"name", "description", "parameters">>
                  /\ Item(function, "name") = JStr(registry.o[i].k)
                  /\ Item(function, "name") = NameOf(tool)
                  /\ Item(function, "description") =
                        IF HasKey(tool, "description") THEN Item(tool, "description")
                        ELSE JStr("")
                  /\ Item(EmittedParameters(i), "type") = JStr("object")
                  /\ Item(EmittedParameters(i), "required") =
                        IF HasSchema(i) /\ HasKey(SchemaOf(i), "required")
                        THEN Item(SchemaOf(i), "required")
                        ELSE JList(<< >>)

C26_Witness ==
    /\ reg.op = "to_ollama_format"
    /\ Len(reg.ret.l) = Len(registry.o)
    /\ \E i, j \in DOMAIN registry.o :
          /\ registry.o[i].v = AddTool
          /\ Item(EmittedParameters(i), "required") = JList(<<JStr("a"), JStr("b")>>)
          /\ registry.o[j].v = DivideTool
          /\ Item(EmittedParameters(j), "required") = JList(<< >>)
          /\ Item(Item(Emitted(j), "function"), "description") = JStr("")

\* the tool definitions of a tools/list answer: result.tools when it is a list of
\* objects
AnswerDefs(answer) ==
    LET payload == IF IsDict(answer) THEN GetOr(answer, "result", JNull) ELSE JNull
        tools == IF IsDict(payload) THEN GetOr(payload, "tools", JNull) ELSE JNull
    IN  IF tools.t = "list" /\ \A i \in DOMAIN tools.l : IsDict(tools.l[i])
        THEN tools.l ELSE << >>

\* C23: when the answer to tools/list holds a tool definition without a name,
\* service initialization (connect, list_tools, register_tools) still succeeds,
\* and afterwards the registry holds exactly the names of the answer's named
\* definitions.
C23_NamelessDefinitionNotFatal ==
    LET defs == AnswerDefs(wire.parsed) IN
    (wire.op = "initialize" /\ \E i \in DOMAIN defs : ~HasKey(defs[i], "name"))
        => /\ wire.exc = "none"
           /\ HeldNames(registry)
                = {NameOf(defs[i]).s : i \in {j \in DOMAIN defs : Named(defs[j])}}

\* C27: after the application services have been shut down, the registry that the
\* next service start uses holds no tool until the next successful handshake
\* (connect and list_tools) has populated it.
C27_RegistryEmptyUntilHandshake ==
    app \in {"connecting", "listing"} => registry = EmptyRegistry

\* the argument map that _coerce_numeric_arguments is given
GivenArguments == ParsedArguments(chat.arguments)

\* C28: on a flat string-keyed argument map the coercion does not raise and
\* returns a map with the same keys in the same order, in which each string value
\* that int() accepts is that integer, each other string value that float()
\* accepts is that float, and every other value is the value given.
C28_CoercionTotalAndKeyPreserving ==
    (chat.state \in {"answering", "finished"} /\ IsDict(GivenArguments)) =>
        LET given == GivenArguments.o IN
        /\ chat.exc = "none"
        /\ IsDict(chat.coerced)
        /\ DOMAIN chat.coerced.o = DOMAIN given
        /\ \A i \in DOMAIN given :
            LET value == given[i].v
                got == chat.coerced.o[i].v
            IN  /\ chat.coerced.o[i].k = given[i].k
                /\ IF value.t = "str" /\ \E e \in IntLiterals : e.text = value.s
                   THEN got.t = "int" /\ [text |-> value.s, value |-> got] \in IntLiterals
                   ELSE IF value.t = "str" /\ \E e \in FloatLiterals : e.text = value.s
                   THEN got.t = "float" /\ [text |-> value.s, value |-> got] \in FloatLiterals
                   ELSE got = value

C28_Witness ==
    /\ chat.state = "finished"
    /\ chat.arguments = JObj(<<KV("a", JStr(" 7 ")), KV("b", JStr("5.5"))>>)
    /\ chat.coerced = JObj(<<KV("a", JNum("7")), KV("b", JFloat("5.5"))>>)

\* C29: whenever call_tool returned a result that carries an error field, the
\* handling of that tool call is over with no exception raised, the one chunk
\* yielded is 'Error executing <tool>: <message>', and no follow-up LLM call was
\* made.
C29_ToolErrorIsReturnedFailure ==
    (IsDict(chat.ret) /\ HasKey(chat.ret, "error")) =>
        /\ chat.state = "finished"
        /\ chat.exc = "none"
        /\ chat.chunks = <<Chunk("Error executing " \o chat.tool \o ": "
                                    \o PyStr(Item(chat.ret, "error")))>>
        /\ chat.llm_calls = 0

C29_Witness ==
    /\ chat.tool = "divide"
    /\ chat.coerced = JObj(<<KV("a", JNum("10")), KV("b", JNum("0"))>>)
    /\ chat.ret = JObj(<<KV("error", JStr("Cannot divide by zero"))>>)
    /\ chat.chunks = <<Chunk("Error executing divide: Cannot divide by zero")>>
    /\ chat.llm_calls = 0
    /\ chat.exc = "none"

\* the divide tool has been called
Divided == calc.op = "tool" /\ calc.operation = "divide"

\* the dict returned holds a/b under result and nothing else
ReturnsQuotient ==
    /\ Cardinality(calc.ret) = 1
    /\ \A e \in calc.ret :
        e.key = "result" /\ e.den # 0 /\ e.num * calc.b.n = e.den * calc.a.n

\* C30 as stated: the divide tool does not raise and does not return both a
\* result and an error; it returns the error 'Cannot divide by zero' when b = 0,
\* the missing-argument message when an argument is missing, and a/b under result
\* otherwise; Calculator.calculate raises ValueError for divide with b = 0.
C30_DivideEnvelope_AsStated ==
    /\ Divided =>
        /\ calc.exc = "none"
        /\ Cardinality({e.key : e \in calc.ret}) = 1
        /\ calc.b = Num(0) => calc.ret = ErrorDict("Cannot divide by zero")
        /\ MissingArgument(calc.a, calc.b)
            => calc.ret = ErrorDict("Both numbers are required for division")
        /\ (calc.b # Num(0) /\ ~MissingArgument(calc.a, calc.b)) => ReturnsQuotient
    /\ (calc.op = "calculate" /\ calc.operation = "divide" /\ calc.b = Num(0))
        => calc.exc = "ValueError"

\* C30: the divide tool does not raise and does not return both a result and an
\* error; it returns the missing-argument message when a or b is missing, the
\* error 'Cannot divide by zero' when both are given and b = 0, and a/b under
\* result otherwise; Calculator.calculate raises ValueError for divide with b = 0.
C30_DivideEnvelope ==
    /\ Divided =>
        /\ calc.exc = "none"
        /\ Cardinality({e.key : e \in calc.ret}) = 1
        /\ MissingArgument(calc.a, calc.b)
            => calc.ret = ErrorDict("Both numbers are required for division")
        /\ (~MissingArgument(calc.a, calc.b) /\ calc.b = Num(0))
            => calc.ret = ErrorDict("Cannot divide by zero")
        /\ (~MissingArgument(calc.a, calc.b) /\ calc.b # Num(0)) => ReturnsQuotient
    /\ (calc.op = "calculate" /\ calc.operation = "divide" /\ calc.b = Num(0))
        => calc.exc = "ValueError" /\ calc.msg = "Cannot divide by zero"

C30_Witness ==
    /\ Divided
    /\ calc.a = Num(3)
    /\ calc.b = Num(0)
    /\ calc.exc = "none"
    /\ calc.ret = ErrorDict("Cannot divide by zero")

\* the last n elements of a list, all of them when it is shorter
LastOf(list, n) ==
    SubSeq(list, IF Len(list) > n THEN Len(list) - n + 1 ELSE 1, Len(list))

\* C31: for every max_history, after each add_message the history holds at most
\* max_history messages, and they are the messages added most recently, in the
\* order in which they were added.
C31_HistoryBounded ==
    conv.op = "add_message" =>
        /\ Len(conv.messages) <= conv.max_history
        /\ conv.messages = LastOf(conv.added, conv.max_history)

\* C32: get_history(limit) returns the last limit messages in their order when
\* limit > 0 (all when there are fewer), the empty list when limit <= 0 and the
\* whole history when limit is None, each time as a new list, and leaves the
\* stored history as it was; after clear() the history is empty.
C32_GetHistoryReturnsTail ==
    /\ conv.op = "get_history" =>
        /\ conv.messages = conv.before
        /\ conv.fresh
        /\ conv.ret = IF ~conv.limit.given THEN conv.messages
                      ELSE IF conv.limit.n > 0 THEN LastOf(conv.messages, conv.limit.n)
                      ELSE << >>
    /\ conv.op = "clear" => conv.messages = << >>

C32_Witness ==
    /\ conv.op = "get_history"
    /\ conv.limit = Num(2)
    /\ Len(conv.messages) = 3
    /\ conv.ret = <<conv.messages[2], conv.messages[3]>>
    /\ conv.messages[1] # conv.messages[2]

\* the places of the lines of a body that start with 'data: '
DataLines(body) == {i \in DOMAIN body : body[i].pre = DataPrefix}

\* C33: of a body with several 'data: ' lines the parser decodes the first one
\* and nothing else: what it returns (or the decoding error it raises) is that of
\* the first 'data: ' line alone, whatever the later lines hold.
C33_FirstDataLineOnly ==
    (wire.op # "none" /\ Cardinality(DataLines(wire.body)) >= 2) =>
        LET first == CHOOSE i \in DataLines(wire.body) :
                        \A j \in DataLines(wire.body) : i <= j
        IN  wire.parsed = Decode(wire.body[first].text)

C33_Witness ==
    /\ wire.op = "call_tool"
    /\ wire.body = TwoEventBody(<<"{\"result\": {\"value\": 4}}">>,
                                <<"{\"error\": {\"code\": -32601, \"message\": \"boom\"}}">>)
    /\ wire.parsed = JObj(<<KV("result", JObj(<<KV("value", JNum("4"))>>))>>)
    /\ wire.ret = JObj(<<KV("value", JNum("4"))>>)


\* C35: after a connect call that raised MCPConnectionError the client is not
\* connected: a list_tools or call_tool call that follows it raises
\* MCPConnectionError and sends no request.
C35_FailedConnectLeavesDisconnected ==
    [][ (/\ last.op = "connect"
         /\ last.exc = "MCPConnectionError"
         /\ last'.op \in {"list_tools", "call_tool"})
        => /\ last'.exc = "MCPConnectionError"
           /\ last'.nsent = 0 ]_vars


\* C36: every value that call_tool returns is a dict, whatever the server
\* answered, so that the chat service's '"error" in result' is defined.
C36_CallToolReturnsMapping ==
    (wire.op = "call_tool" /\ wire.exc = "none") => IsDict(wire.ret)


\* C38: with several chat handlers interleaved on the one connected client, no
\* two requests of that client carry the same id, and the requests that are in
\* flight at the same time have different ids.
C38_DistinctIdsWhenInterleaved ==
    /\ \A i, j \in IdMsgs :
          (i # j /\ sent[i].conn = sent[j].conn) => sent[i].id # sent[j].id
    /\ \A h, k \in Handlers :
          (h # k /\ inflight[h].pc = "calling" /\ inflight[k].pc = "calling")
             => inflight[h].id # inflight[k].id

C38_Witness ==
    /\ \A h \in Handlers : inflight[h].pc = "calling"
    /\ \A h \in Handlers :
          \E i \in DOMAIN sent :
              /\ sent[i].method = "tools/call"
              /\ sent[i].id = inflight[h].id
              /\ sent[i].conn = client


\* a text message was received and was not blank
TurnTaken == ws.received \notin {"", "   "}

\* the history of a turn whose messages were all kept
Expected ==
    ws.before \o <<Message("user", ws.received)>>
        \o [k \in DOMAIN ws.answers |-> Message("assistant", ws.answers[k])]

\* C34 (as claimed): ... a message answered with a non-empty final answer leaves
\* at least 2 more messages in the history.
C34_AnswerLeavesTwoMore ==
    (ws.pc = "receive" /\ ws.answers # << >>)
    => Len(conv.messages) >= Len(ws.before) + 2

\* C34 (amended): process_message adds the user's message before the first LLM
\* call, whose history ends with it, and then adds an assistant message for
\* each non-empty LLM answer it yields and nothing else, in that order; the
\* history afterwards is exactly the last max_history messages of (history
\* before, user message, answers), and all of them when max_history is 0, so it
\* is 2 longer after one non-empty answer only when the history before held at
\* most max_history - 2 messages or max_history is 0.
C34_HistoryHoldsUserThenAnswers ==
    IF TurnTaken
    THEN /\ conv.messages = IF conv.max_history = 0 THEN Expected
                            ELSE LastOf(Expected, conv.max_history)
         /\ ws.llm # << >>
         /\ ws.llm[1] # << >>
         /\ ws.llm[1][Len(ws.llm[1])] = Message("user", ws.received)
         /\ \A k \in DOMAIN conv.messages :
               conv.messages[k].role = "assistant"
                  => conv.messages[k].content \notin
                        {"Operation completed successfully.",
                         "I'm not sure how to respond to that.",
                         "Error: Invalid response from LLM",
                         "Error: Invalid tool arguments format"}
    ELSE conv.messages = ws.before

\* a full history takes the user's message and the answer and keeps its length
C34_Witness ==
    /\ ws.pc = "receive"
    /\ Len(ws.answers) = 1
    /\ conv.max_history = 2
    /\ Len(ws.before) = 2
    /\ conv.messages = <<Message("user", ws.received),
                         Message("assistant", ws.answers[1])>>

\* C37: the tool calls of a batch are given to call_tool in the listed order, and
\* after the first tool call that failed no later one is.
C37_BatchStopsAtFirstFailure ==
    /\ \A j, k \in DOMAIN ws.executed : j < k => ws.executed[j].i < ws.executed[k].i
    /\ ws.failed # 0 => \A k \in DOMAIN ws.executed : ws.executed[k].i <= ws.failed

\* C39: between two reads of the WebSocket, a message that is not blank is
\* answered with at least one chunk and then one "[DONE]", the only one and the
\* last frame, also when the LLM or a tool call raised; a blank message is
\* answered with "Please provide a message." alone.
C39_ChunksThenDone ==
    /\ (ws.pc = "receive" /\ TurnTaken)
       => /\ Len(ws.frames) >= 2
          /\ ws.frames[Len(ws.frames)] = Done
          /\ \A k \in 1..(Len(ws.frames) - 1) : ws.frames[k] # Done
    /\ ws.pc \in {"llm", "tool", "called", "followup"}
       => /\ TurnTaken
          /\ \A k \in DOMAIN ws.frames : ws.frames[k] # Done
    /\ (ws.pc = "receive" /\ ~TurnTaken)
       => ws.frames = <<Chunk("Please provide a message.")>>

C39_Witness ==
    /\ ws.pc = "receive"
    /\ ws.received = "What is 2 + 2?"
    /\ Len(ws.frames) = 3
    /\ ws.frames[1].cause = "ToolExecutionError"
    /\ ws.frames[2].text = "The answer is 4"
    /\ ws.frames[3] = Done

\* C40: call_tool is invoked only with names the tool registry holds.
C40_OnlyRegisteredToolsCalled ==
    \A k \in DOMAIN ws.executed : HasKey(registry, ws.executed[k].tool)

====
